---- MODULE Spec2Model ----
(***************************************************************************)
(* Inventory items (models/items.go) and the in-memory inventory store     *)
(* MockDB (db/db.go).                                                      *)
(*                                                                         *)
(* Strings are sequences of Unicode code points; Go's len() of a string is *)
(* its UTF-8 byte length (ByteLen).  A nil pointer field (price, quantity, *)
(* the two times) is the empty sequence <<>>, a non-nil one <<v>>.  Times  *)
(* are whole days counted from 2000-01-01 00:00:00 UTC.  Prices are        *)
(* integers (the store never does arithmetic on them).                     *)
(*                                                                         *)
(* MockDB keeps pointers to items in its two maps: the model keeps a       *)
(* heap of items addressed by reference and the two maps hold references.  *)
(*                                                                         *)
(* Spec: calls of the store.  SpecHistory: the same, remembering the       *)
(* identifiers deleted.  SpecServer: requests to the handlers of the       *)
(* server.  SpecValidate: the methods of the validator applied to items.   *)
(***************************************************************************)
EXTENDS Integers, Sequences, FiniteSets, Bags, TLC

\* ---------------------------------------------------------------- bounds
\* number of items the callers may create successfully
MaxCreates == 2
\* latest day (after 2000-01-01) a LastUpdated may reach
MaxDay == 1
\* longest run of whitespace before or after a name given to the validator
MaxPad == 2

\* ------------------------------------------------------ program constants
SKU_MIN_LEN == 4
SKU_MAX_LEN == 12
ID_LEN == 20

StatusOK == 200
StatusCreated == 201
StatusNoContent == 204
StatusBadRequest == 400
StatusNotFound == 404
StatusConflict == 409

\* ------------------------------------------------------------- strings
Rep(c, n) == [k \in 1..n |-> c]

\* number of bytes of the UTF-8 encoding of one code point
Utf8Len(c) == IF c < 128 THEN 1 ELSE IF c < 2048 THEN 2 ELSE IF c < 65536 THEN 3 ELSE 4

RECURSIVE ByteLen(_)
\* len(s) of a Go string
ByteLen(s) == IF s = <<>> THEN 0 ELSE Utf8Len(Head(s)) + ByteLen(Tail(s))

\* unicode.IsSpace on the code points the model uses (Latin-1 range)
IsSpace(c) == c \in {9, 10, 11, 12, 13, 32, 133, 160}

RECURSIVE TrimLeft(_)
TrimLeft(s) == IF s # <<>> /\ IsSpace(Head(s)) THEN TrimLeft(Tail(s)) ELSE s

RECURSIVE TrimRight(_)
TrimRight(s) ==
    IF s # <<>> /\ IsSpace(s[Len(s)]) THEN TrimRight(SubSeq(s, 1, Len(s) - 1)) ELSE s

\* strings.TrimSpace
TrimSpace(s) == TrimRight(TrimLeft(s))

\* unicode.IsLetter on the Latin-1 range
IsLetter(c) ==
    \/ c \in 65..90
    \/ c \in 97..122
    \/ c \in {170, 181, 186}
    \/ c \in 192..214
    \/ c \in 216..246
    \/ c \in 248..255

\* unicode.IsDigit on the Latin-1 range
IsDigit(c) == c \in 48..57

\* --------------------------------------------------------------- items
\* models.Item{}: the zero value
EmptyItem ==
    [ID |-> <<>>, SKU |-> <<>>, Name |-> <<>>, Description |-> <<>>,
     PriceInCAD |-> <<>>, Quantity |-> <<>>, DateAdded |-> <<>>, LastUpdated |-> <<>>]

\* the outcome of a validation or of SetID: (code, err), the message of the
\* error, and the item as the call leaves it (the receiver is a pointer)
Outcome(item, code, err) == [item |-> item, code |-> code, err |-> err, msg |-> ""]

\* an outcome with an error: errors.New(msg), fmt.Errorf(msg)
Failure(item, code, msg) == [item |-> item, code |-> code, err |-> TRUE, msg |-> msg]

\* the messages of the errors
MsgIdLength == "id must be 20 characters in length"
MsgIdChars == "id may only contain [a-v 0-9]"
MsgSkuLength == "SKU must be between 4 and 12 characters in length"
MsgSkuChars == "SKU may only contain [a-z A-Z 0-9 _ -]"
MsgName == "name cannot be whitespace or empty"
MsgPrice == "price_CAD cannot be negative"
MsgQuantity == "quantity cannot be negative"
MsgIdSet == "item id has already been set"

GetID(item) == item.ID

IdIsPresent(item) == ByteLen(item.ID) = ID_LEN

\* an identifier check that accepts the letters up to w
ID_isValid_ToW(id) ==
    IF ByteLen(id) # ID_LEN
    THEN [code |-> StatusBadRequest, err |-> TRUE, msg |-> MsgIdLength]
    ELSE IF \E k \in 1..Len(id) :
                ~ ((97 <= id[k] /\ id[k] <= 119) \/ (48 <= id[k] /\ id[k] <= 57))
         THEN [code |-> StatusBadRequest, err |-> TRUE, msg |-> MsgIdChars]
         ELSE [code |-> 0, err |-> FALSE, msg |-> ""]

ID_isValid(id) ==
    IF ByteLen(id) # ID_LEN
    THEN [code |-> StatusBadRequest, err |-> TRUE, msg |-> MsgIdLength]
    ELSE IF \E k \in 1..Len(id) :
                ~ ((97 <= id[k] /\ id[k] <= 118) \/ (48 <= id[k] /\ id[k] <= 57))
         THEN [code |-> StatusBadRequest, err |-> TRUE, msg |-> MsgIdChars]
         ELSE [code |-> 0, err |-> FALSE, msg |-> ""]

SKU_isValid(sku) ==
    IF ByteLen(sku) < SKU_MIN_LEN \/ ByteLen(sku) > SKU_MAX_LEN
    THEN [code |-> StatusBadRequest, err |-> TRUE, msg |-> MsgSkuLength]
    ELSE IF \E k \in 1..Len(sku) :
                ~ (IsLetter(sku[k]) \/ IsDigit(sku[k]) \/ sku[k] = 45 \/ sku[k] = 95)
         THEN [code |-> StatusBadRequest, err |-> TRUE, msg |-> MsgSkuChars]
         ELSE [code |-> 0, err |-> FALSE, msg |-> ""]

SetID(item, id) ==
    IF ~ IdIsPresent(item)
    THEN IF ID_isValid(id).err
         THEN Failure(item, 0, ID_isValid(id).msg)
         ELSE Outcome([item EXCEPT !.ID = id], 0, FALSE)
    ELSE Failure(item, 0, MsgIdSet)

\* (code, err) of a check of one field, for the item it was made on
OnItem(item, r) == [item |-> item, code |-> r.code, err |-> r.err, msg |-> r.msg]

ValidateID(item) == OnItem(item, ID_isValid(item.ID))

ValidateSKU(item) == OnItem(item, SKU_isValid(item.SKU))

\* a name check that looks at the name without trimming it
ValidateName_NoTrim(item) ==
    IF ByteLen(item.Name) = 0
    THEN Failure(item, StatusBadRequest, MsgName)
    ELSE Outcome(item, 0, FALSE)

\* a name check that takes one white space off each end
ValidateName_TrimOnce(item) ==
    LET n == item.Name
        a == IF n # <<>> /\ IsSpace(Head(n)) THEN Tail(n) ELSE n
        b == IF a # <<>> /\ IsSpace(a[Len(a)]) THEN SubSeq(a, 1, Len(a) - 1) ELSE a
        it == [item EXCEPT !.Name = b]
    IN  IF ByteLen(it.Name) = 0
        THEN Failure(it, StatusBadRequest, MsgName)
        ELSE Outcome(it, 0, FALSE)

ValidateName(item) ==
    LET it == [item EXCEPT !.Name = TrimSpace(item.Name)]
    IN  IF ByteLen(it.Name) = 0
        THEN Failure(it, StatusBadRequest, MsgName)
        ELSE Outcome(it, 0, FALSE)

ValidateDescription(item) ==
    Outcome([item EXCEPT !.Description = TrimSpace(item.Description)], 0, FALSE)

\* a price check that gives an absent price the default 0, as the
\* quantity check does
ValidatePrice_Default(item) ==
    IF item.PriceInCAD # <<>> /\ item.PriceInCAD[1] < 0
    THEN Failure(item, StatusBadRequest, MsgPrice)
    ELSE IF item.PriceInCAD = <<>>
         THEN Outcome([item EXCEPT !.PriceInCAD = <<0>>], 0, FALSE)
         ELSE Outcome(item, 0, FALSE)

ValidatePrice(item) ==
    IF item.PriceInCAD # <<>> /\ item.PriceInCAD[1] < 0
    THEN Failure(item, StatusBadRequest, MsgPrice)
    ELSE Outcome(item, 0, FALSE)

\* a quantity check that refuses 0 as well
ValidateQuantity_Positive(item) ==
    IF item.Quantity # <<>> /\ item.Quantity[1] <= 0
    THEN Failure(item, StatusBadRequest, MsgQuantity)
    ELSE IF item.Quantity = <<>>
         THEN Outcome([item EXCEPT !.Quantity = <<0>>], 0, FALSE)
         ELSE Outcome(item, 0, FALSE)

ValidateQuantity(item) ==
    IF item.Quantity # <<>> /\ item.Quantity[1] < 0
    THEN Failure(item, StatusBadRequest, MsgQuantity)
    ELSE IF item.Quantity = <<>>
         THEN Outcome([item EXCEPT !.Quantity = <<0>>], 0, FALSE)
         ELSE Outcome(item, 0, FALSE)

\* a validation that runs every check and then reports the first failure
ValidateItem_RunsAll(item) ==
    LET r1 == ValidateSKU(item)
        r2 == ValidateName(r1.item)
        r3 == ValidateDescription(r2.item)
        r4 == ValidatePrice(r3.item)
        r5 == ValidateQuantity(r4.item)
    IN  IF r1.err THEN [r1 EXCEPT !.item = r5.item] ELSE
        IF r2.err THEN [r2 EXCEPT !.item = r5.item] ELSE
        IF r3.err THEN [r3 EXCEPT !.item = r5.item] ELSE
        IF r4.err THEN [r4 EXCEPT !.item = r5.item] ELSE
        IF r5.err THEN r5 ELSE Outcome(r5.item, 0, FALSE)

ValidateItem(item) ==
    LET r1 == ValidateSKU(item) IN
    IF r1.err THEN r1 ELSE
    LET r2 == ValidateName(r1.item) IN
    IF r2.err THEN r2 ELSE
    LET r3 == ValidateDescription(r2.item) IN
    IF r3.err THEN r3 ELSE
    LET r4 == ValidatePrice(r3.item) IN
    IF r4.err THEN r4 ELSE
    LET r5 == ValidateQuantity(r4.item) IN
    IF r5.err THEN r5 ELSE Outcome(r5.item, 0, FALSE)

\* ------------------------------------------------------------- MockDB
\* Maps are functions; m[k] = v and delete(m, k) of Go
MapPut(m, k, v) == (k :> v) @@ m

MapDelete(m, k) == [j \in DOMAIN m \ {k} |-> m[j]]

Range(m) == {m[k] : k \in DOMAIN m}

\* NewMockDB(): two empty maps; no item allocated, no identifier minted
NewMockDB == [heap |-> <<>>, dbBySKU |-> <<>>, dbByID |-> <<>>, minted |-> 0]

\* The items the store can still reach: the heap keeps only those (an item
\* that neither map points to is garbage and cannot be observed again)
Collect(st) ==
    [st EXCEPT !.heap = [r \in (Range(st.dbBySKU) \cup Range(st.dbByID)) |-> st.heap[r]]]

\* models.NewID(): the n-th identifier handed out, 20 characters of [0-9]
NewID(n) == Rep(48, ID_LEN - 1) \o <<48 + n>>

\* MockDB.CreationTime(): always 2000-01-01
CreationTime == <<0>>

\* UpdateTime that stamps the fixed creation time instead of advancing
UpdateTime_Fixed(item) == [item EXCEPT !.LastUpdated = CreationTime]

\* UpdateTime that moves one day back instead of forward
UpdateTime_Back(item) ==
    IF item.LastUpdated = <<>>
    THEN [item EXCEPT !.LastUpdated = CreationTime]
    ELSE [item EXCEPT !.LastUpdated = <<item.LastUpdated[1] - 1>>]

\* MockDB.UpdateTime(item)
UpdateTime(item) ==
    IF item.LastUpdated = <<>>
    THEN [item EXCEPT !.LastUpdated = CreationTime]
    ELSE [item EXCEPT !.LastUpdated = <<item.LastUpdated[1] + 1>>]

\* the result of a store call: the store after it, the (code, err) it
\* returns, the candidate as the call leaves it, the item and the items
\* it returns
Result(st, code, err, item, out, items) ==
    [st |-> st, code |-> code, err |-> err, item |-> item, out |-> out, items |-> items]

\* the uniqueness check looking in the identifier index
SkuTaken_WrongMap(st, sku) == sku \in DOMAIN st.dbByID

\* _, ok := db.dbBySKU[sku]
SkuTaken(st, sku) == sku \in DOMAIN st.dbBySKU

\* item creation that leaves LastUpdated as the caller set it
CompleteItem_NoLastUpdated(item, n) ==
    [SetID(item, NewID(n)).item EXCEPT !.DateAdded = CreationTime]

\* CreateItem, "Complete item creation": the n-th identifier is minted and
\* SetID's error is dropped; both times are the creation time
CompleteItem(item, n) ==
    [SetID(item, NewID(n)).item EXCEPT !.DateAdded = CreationTime,
                                       !.LastUpdated = CreationTime]

\* CreateItem, "Save item": the item goes to the heap under a new reference
\* and both maps point to it
SaveItem(st, it) ==
    LET r == st.minted + 1
    IN  Collect([heap    |-> MapPut(st.heap, r, it),
                 dbBySKU |-> MapPut(st.dbBySKU, it.SKU, r),
                 dbByID  |-> MapPut(st.dbByID, GetID(it), r),
                 minted  |-> st.minted + 1])

\* a refused create that has saved the item all the same
CreateConflict_Saves(st, item) ==
    Result(SaveItem(st, [item EXCEPT !.DateAdded = CreationTime, !.LastUpdated = CreationTime]),
           StatusConflict, TRUE, item, EmptyItem, EmptyBag)

\* CreateItem when the sku is taken
CreateConflict(st, item) == Result(st, StatusConflict, TRUE, item, EmptyItem, EmptyBag)

\* MockDB.CreateItem(item)
CreateItem(st, item) ==
    IF SkuTaken(st, item.SKU)
    THEN CreateConflict(st, item)
    ELSE LET it == CompleteItem(item, st.minted + 1)
         IN  Result(SaveItem(st, it), StatusCreated, FALSE, it, EmptyItem, EmptyBag)

\* a partial merge: a price the candidate omits is kept
ReplaceFields_Merge(v, item) ==
    [v EXCEPT !.Name = item.Name,
              !.Description = item.Description,
              !.PriceInCAD = IF item.PriceInCAD = <<>> THEN v.PriceInCAD ELSE item.PriceInCAD,
              !.Quantity = item.Quantity]

\* a replace that takes the candidate's DateAdded as well
ReplaceFields_DateAdded(v, item) ==
    [v EXCEPT !.Name = item.Name,
              !.Description = item.Description,
              !.PriceInCAD = item.PriceInCAD,
              !.Quantity = item.Quantity,
              !.DateAdded = item.DateAdded]

\* a replace that takes the candidate's identifier when it has one
ReplaceFields_ID(v, item) ==
    [v EXCEPT !.Name = item.Name,
              !.Description = item.Description,
              !.PriceInCAD = item.PriceInCAD,
              !.Quantity = item.Quantity,
              !.ID = IF IdIsPresent(item) THEN item.ID ELSE v.ID]

\* UpdateItem, the fields taken from the candidate besides the sku
ReplaceFields(v, item) ==
    [v EXCEPT !.Name = item.Name,
              !.Description = item.Description,
              !.PriceInCAD = item.PriceInCAD,
              !.Quantity = item.Quantity]

\* UpdateItem, the sku index when item v (now under sku old) takes sku new
MoveSKU(bySKU, old, new, v) ==
    IF old # new THEN MapPut(MapDelete(bySKU, old), new, v) ELSE bySKU

\* a uniqueness check that also refuses the item's own sku
SkuCollides_Self(st, old, item) == SkuTaken(st, item.SKU)

\* UpdateItem, "SKU is to be updated, check for uniqueness"
SkuCollides(st, old, item) == old.SKU # item.SKU /\ SkuTaken(st, item.SKU)

\* a refused update that has overwritten the item's name all the same
UpdateConflict_Writes(st, v, item) ==
    Result([st EXCEPT !.heap = [st.heap EXCEPT ![v].Name = item.Name]],
           StatusConflict, TRUE, item, EmptyItem, EmptyBag)

\* UpdateItem when the new sku is taken
UpdateConflict(st, v, item) == Result(st, StatusConflict, TRUE, item, EmptyItem, EmptyBag)

\* a lookup that answers for an unknown identifier as for an empty update
NotFound_NoContent(st, item) == Result(st, StatusNoContent, FALSE, item, EmptyItem, EmptyBag)

\* v, ok := db.dbByID[*id]; !ok
NotFound(st, item) == Result(st, StatusNotFound, TRUE, item, EmptyItem, EmptyBag)

\* an update that looks for the sku before it looks for the identifier
UpdateItem_SkuFirst(st, id, item) ==
    IF SkuTaken(st, item.SKU) /\ (id \notin DOMAIN st.dbByID \/ st.heap[st.dbByID[id]].SKU # item.SKU)
    THEN Result(st, StatusConflict, TRUE, item, EmptyItem, EmptyBag)
    ELSE IF id \notin DOMAIN st.dbByID
    THEN NotFound(st, item)
    ELSE LET v == st.dbByID[id]
             old == st.heap[v]
             new == UpdateTime(ReplaceFields([old EXCEPT !.SKU = item.SKU], item))
             s1 == [st EXCEPT !.heap = [st.heap EXCEPT ![v] = new],
                              !.dbBySKU = MoveSKU(st.dbBySKU, old.SKU, item.SKU, v)]
         IN  Result(Collect(s1), StatusNoContent, FALSE, item, EmptyItem, EmptyBag)

\* MockDB.UpdateItem(id, item)
UpdateItem(st, id, item) ==
    IF id \notin DOMAIN st.dbByID
    THEN NotFound(st, item)
    ELSE LET v == st.dbByID[id]
             old == st.heap[v]
         IN  IF SkuCollides(st, old, item)
             THEN UpdateConflict(st, v, item)
             ELSE LET new == UpdateTime(ReplaceFields([old EXCEPT !.SKU = item.SKU], item))
                      s1 == [st EXCEPT !.heap = [st.heap EXCEPT ![v] = new],
                                       !.dbBySKU = MoveSKU(st.dbBySKU, old.SKU, item.SKU, v)]
                  IN  Result(Collect(s1), StatusNoContent, FALSE, item, EmptyItem, EmptyBag)

\* a delete that leaves the entry of the sku index
DeleteItem_KeepsSku(st, id) ==
    IF id \notin DOMAIN st.dbByID
    THEN NotFound(st, EmptyItem)
    ELSE LET s1 == [st EXCEPT !.dbByID = MapDelete(st.dbByID, id)]
         IN  Result(Collect(s1), StatusNoContent, FALSE, EmptyItem, EmptyItem, EmptyBag)

\* MockDB.DeleteItem(id)
DeleteItem(st, id) ==
    IF id \notin DOMAIN st.dbByID
    THEN NotFound(st, EmptyItem)
    ELSE LET sku == st.heap[st.dbByID[id]].SKU
             s1 == [st EXCEPT !.dbBySKU = MapDelete(st.dbBySKU, sku),
                              !.dbByID = MapDelete(st.dbByID, id)]
         IN  Result(Collect(s1), StatusNoContent, FALSE, EmptyItem, EmptyItem, EmptyBag)

\* MockDB.GetItems(): one copy per entry of dbBySKU, in no particular order
GetItems(st) ==
    LET its == {st.heap[st.dbBySKU[s]] : s \in DOMAIN st.dbBySKU}
        bag == [it \in its |->
                    Cardinality({s \in DOMAIN st.dbBySKU : st.heap[st.dbBySKU[s]] = it})]
    IN  Result(st, StatusOK, FALSE, EmptyItem, EmptyItem, bag)

\* a get that marks the item it returns as updated
GetItem_Touches(st, id) ==
    IF id \notin DOMAIN st.dbByID
    THEN NotFound(st, EmptyItem)
    ELSE LET v == st.dbByID[id]
             new == UpdateTime(st.heap[v])
         IN  Result([st EXCEPT !.heap = [st.heap EXCEPT ![v] = new]],
                    StatusOK, FALSE, EmptyItem, new, EmptyBag)

\* MockDB.GetItem(id)
GetItem(st, id) ==
    IF id \notin DOMAIN st.dbByID
    THEN NotFound(st, EmptyItem)
    ELSE Result(st, StatusOK, FALSE, EmptyItem, st.heap[st.dbByID[id]], EmptyBag)

\* a reference no item of the heap has: &items[i] is the address of an
\* element of the caller's slice (the references of CreateItem are positive)
FreshRef(st) ==
    CHOOSE r \in (0 - (Cardinality(DOMAIN st.heap) + 1))..(0 - 1) : r \notin DOMAIN st.heap

\* a load that goes through CreateItem for every item
RECURSIVE LoadTestItems_ViaCreate(_, _)
LoadTestItems_ViaCreate(st, items) ==
    IF items = <<>> THEN st
    ELSE LoadTestItems_ViaCreate(CreateItem(st, Head(items)).st, Tail(items))

\* MockDB.LoadTestItems(items): both maps are pointed at every item of the
\* slice in turn, nothing is checked and nothing is changed in the items
RECURSIVE LoadTestItems(_, _)
LoadTestItems(st, items) ==
    IF items = <<>> THEN Collect(st)
    ELSE LET it == Head(items)
             r == FreshRef(st)
         IN  LoadTestItems([st EXCEPT !.heap = MapPut(st.heap, r, it),
                                      !.dbByID = MapPut(st.dbByID, it.ID, r),
                                      !.dbBySKU = MapPut(st.dbBySKU, it.SKU, r)],
                           Tail(items))

\* ------------------------------------------------------------- SQLDB
\* The items table (id primary key, sku unique) is a set of rows, one
\* record per row.  UPDATE ... WHERE id = $6 of SQLDB.UpdateItem at time
\* now: the statement takes sku, name, description, price and quantity
\* from the candidate.  The call panics on a candidate without quantity
\* (code 0, err), answers 409 on any error of Exec (fault: the connection
\* or the query failed; or the new sku is another row's), 404 when no row
\* has the id, and 204 otherwise.  UpdateTime stamps the candidate, not
\* the row.
SQLDB_UpdateItem(rows, now, fault, id, item) ==
    LET stamped == [item EXCEPT !.LastUpdated = <<now>>]
        hit == {r \in rows : r.ID = id}
    IN  IF item.Quantity = <<>>
        THEN [rows |-> rows, code |-> 0, err |-> TRUE, item |-> stamped]
        ELSE IF fault \/ (hit # {} /\ \E r \in rows \ hit : r.SKU = item.SKU)
        THEN [rows |-> rows, code |-> StatusConflict, err |-> TRUE, item |-> stamped]
        ELSE IF hit = {}
        THEN [rows |-> rows, code |-> StatusNotFound, err |-> TRUE, item |-> stamped]
        ELSE [rows |-> (rows \ hit) \cup
                         {[r EXCEPT !.SKU = item.SKU,
                                    !.Name = item.Name,
                                    !.Description = item.Description,
                                    !.PriceInCAD = item.PriceInCAD,
                                    !.Quantity = item.Quantity,
                                    !.LastUpdated = <<now>>] : r \in hit},
              code |-> StatusNoContent, err |-> FALSE, item |-> stamped]

\* what a call of SQLDB leaves: the table, (code, err), the candidate as
\* the call leaves it, the item and the items it returns
SqlResult(rows, code, err, item, out, items) ==
    [rows |-> rows, code |-> code, err |-> err, item |-> item, out |-> out, items |-> items]

StatusInternalServerError == 500

\* the row INSERT makes of an item at time now
RowOf(item, now) == [item EXCEPT !.DateAdded = <<now>>, !.LastUpdated = <<now>>]

\* a table whose sku column has no UNIQUE constraint
Violates_NoUnique(rows, row) == \E r \in rows : r.ID = row.ID

\* the constraints of the items table a new row can violate: id PRIMARY
\* KEY, sku UNIQUE
Violates(rows, row) == \E r \in rows : r.ID = row.ID \/ r.SKU = row.SKU

\* SQLDB.CreateItem(item) at time now, n-1 identifiers being handed out
\* already.  SetID keeps a carried identifier of 20 bytes, its error is
\* dropped; the call panics on a candidate without quantity (code 0, err);
\* it answers 409 on any error of Exec (fault: the connection or the query
\* failed; a constraint is violated) and 201 otherwise.
SQLDB_CreateItem(rows, now, fault, n, item) ==
    LET it == [SetID(item, NewID(n)).item EXCEPT !.DateAdded = <<now>>, !.LastUpdated = <<now>>]
    IN  IF item.Quantity = <<>>
        THEN SqlResult(rows, 0, TRUE, it, EmptyItem, EmptyBag)
        ELSE IF fault \/ Violates(rows, RowOf(it, now))
        THEN SqlResult(rows, StatusConflict, TRUE, it, EmptyItem, EmptyBag)
        ELSE SqlResult(rows \cup {RowOf(it, now)}, StatusCreated, FALSE, it, EmptyItem, EmptyBag)

\* SQLDB.DeleteItem(id): DELETE FROM items WHERE id = $1.  An error of
\* Exec is not looked at: the call then answers 204 without error, as it
\* does when a row was deleted; 404 when no row has the id.
SQLDB_DeleteItem(rows, fault, id) ==
    LET hit == {r \in rows : r.ID = id}
    IN  IF fault
        THEN SqlResult(rows, StatusNoContent, FALSE, EmptyItem, EmptyItem, EmptyBag)
        ELSE IF hit = {}
        THEN SqlResult(rows, StatusNotFound, TRUE, EmptyItem, EmptyItem, EmptyBag)
        ELSE SqlResult(rows \ hit, StatusNoContent, FALSE, EmptyItem, EmptyItem, EmptyBag)

\* SQLDB.GetItems(): SELECT * FROM items; 500 on an error of Query
SQLDB_GetItems(rows, fault) ==
    IF fault
    THEN SqlResult(rows, StatusInternalServerError, TRUE, EmptyItem, EmptyItem, EmptyBag)
    ELSE SqlResult(rows, StatusOK, FALSE, EmptyItem, EmptyItem, SetToBag(rows))

\* SQLDB.GetItem(id): SELECT * FROM items where id = $1
SQLDB_GetItem(rows, fault, id) ==
    LET hit == {r \in rows : r.ID = id}
    IN  IF fault \/ Cardinality(hit) > 1
        THEN SqlResult(rows, StatusInternalServerError, TRUE, EmptyItem, EmptyItem, EmptyBag)
        ELSE IF hit = {}
        THEN SqlResult(rows, StatusNotFound, TRUE, EmptyItem, EmptyItem, EmptyBag)
        ELSE SqlResult(rows, StatusOK, FALSE, EmptyItem, CHOOSE r \in hit : TRUE, EmptyBag)

\* SQLDB.LoadTestItems(items): CreateItem is called for every item of the
\* slice in turn and what it returns is dropped; the k-th call takes the
\* (n+k)-th identifier from NewID.  A panic of CreateItem (no quantity)
\* ends the load.
RECURSIVE SQLDB_LoadTestItems(_, _, _, _)
SQLDB_LoadTestItems(rows, now, n, items) ==
    IF items = <<>> THEN [rows |-> rows, n |-> n]
    ELSE LET res == SQLDB_CreateItem(rows, now, FALSE, n + 1, Head(items))
         IN  IF res.code = 0
             THEN [rows |-> rows, n |-> n + 1]
             ELSE SQLDB_LoadTestItems(res.rows, now, n + 1, Tail(items))

\* ------------------------------------------------------------ callers
\* "AAAAAAAA" and "BBBBBBBB"
SkuA == Rep(65, 8)
SkuB == Rep(66, 8)
SKUs == {SkuA, SkuB}

\* identifiers a caller may put in a candidate: none, "abc",
\* "AAAAAAAAAAAAAAAAAAAA" (20 characters, malformed), "aaaaaaaaaaaaaaaaaaaa"
\* (well-formed, never handed out by the store) and the identifiers the
\* store has handed out so far
IdNone == <<>>
IdShort == <<97, 98, 99>>
IdUpper == Rep(65, ID_LEN)
IdForeign == Rep(97, ID_LEN)
MintedIDs(n) == {NewID(k) : k \in 1..n}
CandidateIDs(n) == {IdNone, IdShort, IdUpper, IdForeign} \cup MintedIDs(n)

\* identifiers a caller may ask for (no item ever has IdShort)
CallIDs(n) == {IdShort, IdUpper, IdForeign} \cup MintedIDs(n)

\* the other fields of a candidate.  Thing1 is minimal and as validate_item
\* leaves it; Thing2 has a description, price 0 and quantity 3; Dated is
\* Thing1 with DateAdded and LastUpdated set by the caller; Raw has not been
\* through validate_item (" T1", no quantity)
Thing1 ==
    [Name |-> <<84, 49>>, Description |-> <<>>, PriceInCAD |-> <<>>,
     Quantity |-> <<0>>, DateAdded |-> <<>>, LastUpdated |-> <<>>]
Thing2 ==
    [Name |-> <<84, 50>>, Description |-> <<100>>, PriceInCAD |-> <<0>>,
     Quantity |-> <<3>>, DateAdded |-> <<>>, LastUpdated |-> <<>>]
Dated ==
    [Name |-> <<84, 49>>, Description |-> <<>>, PriceInCAD |-> <<>>,
     Quantity |-> <<0>>, DateAdded |-> <<1>>, LastUpdated |-> <<0>>]
Raw ==
    [Name |-> <<32, 84, 49>>, Description |-> <<>>, PriceInCAD |-> <<>>,
     Quantity |-> <<>>, DateAdded |-> <<>>, LastUpdated |-> <<>>]

Candidate(i, s, p) ==
    [ID |-> i, SKU |-> s, Name |-> p.Name, Description |-> p.Description,
     PriceInCAD |-> p.PriceInCAD, Quantity |-> p.Quantity,
     DateAdded |-> p.DateAdded, LastUpdated |-> p.LastUpdated]

\* the candidates of the callers: Thing1 with every identifier, the others
\* without identifier
Candidates(n) ==
    {Candidate(i, s, Thing1) : i \in CandidateIDs(n), s \in SKUs}
        \cup {Candidate(IdNone, s, p) : s \in SKUs, p \in {Thing2, Dated, Raw}}

\* a candidate that validate_item accepts and leaves as it is
Validated(x) == ~ ValidateItem(x).err /\ ValidateItem(x).item = x

\* items a request body may decode to, besides the candidates above: a
\* blank name, a negative price, a negative quantity, a sku that is too
\* short and one with a character that is not allowed
Blank ==
    [Name |-> <<32, 32>>, Description |-> <<>>, PriceInCAD |-> <<>>,
     Quantity |-> <<>>, DateAdded |-> <<>>, LastUpdated |-> <<>>]
NegPrice ==
    [Name |-> <<84, 49>>, Description |-> <<>>, PriceInCAD |-> <<-1>>,
     Quantity |-> <<>>, DateAdded |-> <<>>, LastUpdated |-> <<>>]
NegQuantity ==
    [Name |-> <<84, 49>>, Description |-> <<>>, PriceInCAD |-> <<>>,
     Quantity |-> <<-1>>, DateAdded |-> <<>>, LastUpdated |-> <<>>]
SkuShort == Rep(65, SKU_MIN_LEN - 1)
SkuQuery == <<65, 65, 63, 65>>

\* the request bodies: one that does not decode, and the items a body
\* decodes to (Thing1 with or without an identifier, the others without)
Bodies(n) ==
    {[decodes |-> FALSE, item |-> EmptyItem]}
        \cup {[decodes |-> TRUE, item |-> Candidate(i, s, Thing1)] :
                    i \in {IdNone, IdUpper} \cup MintedIDs(n), s \in SKUs}
        \cup {[decodes |-> TRUE, item |-> Candidate(IdNone, s, p)] :
                    s \in SKUs, p \in {Thing2, Raw, Blank, NegPrice, NegQuantity}}
        \cup {[decodes |-> TRUE, item |-> Candidate(IdNone, s, p)] :
                    s \in {SkuShort, SkuQuery}, p \in {Raw, Blank}}

\* ---------------------------------------------------- validator inputs
\* skus: runs of one character (a letter, a digit, a hyphen, an underscore,
\* a question mark, the two-byte letter e-acute) of every length up to one
\* more than SKU_MAX_LEN, and mixed ones
SkuInputs ==
    {Rep(c, n) : c \in {65, 48, 45, 95, 63, 233}, n \in 0..(SKU_MAX_LEN + 1)}
        \cup {<<65, 95, 45, 48>>,
              <<65, 98, 95, 48, 45, 49, 50, 95, 67, 100, 45, 51>>,
              <<65, 98, 95, 48, 45, 49, 50, 51, 52, 53, 54, 55, 56>>,
              <<65, 65, 65, 65, 65, 65, 65, 63>>,
              <<65, 65, 233>>,
              <<65, 65, 65, 233>>,
              <<65, 65, 65, 215>>}

\* identifiers: runs of one character of the lengths around ID_LEN, and
\* mixed ones
IdInputs ==
    {Rep(c, n) : c \in {97, 118, 119, 48, 57, 65, 63, 233},
                 n \in {0, ID_LEN \div 2, ID_LEN - 1, ID_LEN, ID_LEN + 1}}
        \cup {<<48, 49, 50, 51, 52, 97, 98, 99, 100, 101,
                53, 54, 55, 56, 57, 102, 103, 104, 105, 106>>,
              Rep(97, ID_LEN - 1) \o <<119>>,
              Rep(97, ID_LEN - 1) \o <<65>>,
              Rep(48, ID_LEN - 1) \o <<63>>,
              Rep(97, ID_LEN - 2) \o <<233>>,
              Rep(97, ID_LEN - 1) \o <<233>>}

\* names: nothing, a word, two words or a no-break space, between up to
\* MaxPad spaces and up to MaxPad tabs
NameInputs ==
    {Rep(32, a) \o core \o Rep(9, b) :
        a \in 0..MaxPad, b \in 0..MaxPad,
        core \in {<<>>, <<84, 49>>, <<65, 32, 66>>, <<160>>}}

QuantityInputs == {<<>>, <<-1>>, <<0>>, <<3>>}

PriceInputs == {<<>>, <<-1>>, <<0>>, <<5>>}

\* an item every check accepts
Good == Candidate(IdNone, SkuA, Thing1)

\* the items given to the validator: Good with one field replaced, and the
\* combinations of a good or bad sku, name, price and quantity with a
\* padded description
ValidatorInputs ==
    {[Good EXCEPT !.SKU = s] : s \in SkuInputs}
        \cup {[Good EXCEPT !.ID = i] : i \in IdInputs}
        \cup {[Good EXCEPT !.Name = n] : n \in NameInputs}
        \cup {[Good EXCEPT !.Quantity = q] : q \in QuantityInputs}
        \cup {[Good EXCEPT !.PriceInCAD = c] : c \in PriceInputs}
        \cup {[ID |-> IdNone, SKU |-> s, Name |-> n, Description |-> <<32, 100, 32>>,
               PriceInCAD |-> c, Quantity |-> q, DateAdded |-> <<>>, LastUpdated |-> <<>>] :
                    s \in {SkuA, SkuShort}, n \in {<<32, 84, 49>>, <<32, 32>>},
                    c \in {<<>>, <<-1>>}, q \in {<<>>, <<-1>>, <<3>>}}

\* ------------------------------------------------------------- Server
\* The handlers of the server over a MockDB.  A request body either fails
\* to decode (a JSON type error) or decodes to an item; date_added and
\* last_updated are not decoded (json:"-").  A response is the result of
\* the store call the handler made, if any, with the status written.

\* what a handler leaves: the store, the status written, the item of the
\* request as the handler leaves it, the item or items encoded in the
\* response, and the store operation it invoked ("none" when it returned
\* before reaching the store)
Response(st, code, err, item, out, items, db) ==
    [st |-> st, code |-> code, err |-> err, item |-> item, out |-> out,
     items |-> items, db |-> db, location |-> <<>>]

\* the response of a handler that called the store
FromStore(res, db) == Response(res.st, res.code, res.err, res.item, res.out, res.items, db)

\* Server.decodeRequestItem: false and 400 when the body does not decode
Server_decodeRequestItem(body) ==
    IF body.decodes
    THEN Outcome(body.item, 0, FALSE)
    ELSE Failure(body.item, StatusBadRequest, "json: cannot unmarshal")

\* a validation step that lets every item through as it is
Server_validateItem_Pass(item) == Outcome(item, 0, FALSE)

\* Server.validateItem: false and the validator's status when the item is
\* refused
Server_validateItem(item) == ValidateItem(item)

\* a Location header with the absolute path of the item
Server_Location_Absolute(item) == << <<47, 97, 112, 105, 47>> \o GetID(item) >>

\* Server.CreateItem, "Respond with URL of newly-created resource": the
\* values of the Location header, one, "/" and the identifier
Server_Location(item) == << <<47>> \o GetID(item) >>

\* a create handler that puts the item in the store with LoadTestItems
Server_CreateItem_Loads(st, body) ==
    LET d == Server_decodeRequestItem(body) IN
    IF d.err THEN Response(st, d.code, TRUE, d.item, EmptyItem, EmptyBag, "none") ELSE
    LET v == Server_validateItem(d.item) IN
    IF v.err THEN Response(st, v.code, TRUE, v.item, EmptyItem, EmptyBag, "none") ELSE
    [Response(LoadTestItems(st, <<v.item>>), StatusCreated, FALSE, v.item,
              EmptyItem, EmptyBag, "LoadTestItems")
        EXCEPT !.location = Server_Location(v.item)]

\* Server.CreateItem
Server_CreateItem(st, body) ==
    LET d == Server_decodeRequestItem(body) IN
    IF d.err THEN Response(st, d.code, TRUE, d.item, EmptyItem, EmptyBag, "none") ELSE
    LET v == Server_validateItem(d.item) IN
    IF v.err THEN Response(st, v.code, TRUE, v.item, EmptyItem, EmptyBag, "none") ELSE
    LET r == FromStore(CreateItem(st, v.item), "CreateItem") IN
    IF r.err THEN r ELSE [r EXCEPT !.location = Server_Location(r.item)]

\* Server.UpdateItem
Server_UpdateItem(st, id, body) ==
    LET d == Server_decodeRequestItem(body) IN
    IF d.err THEN Response(st, d.code, TRUE, d.item, EmptyItem, EmptyBag, "none") ELSE
    LET v == Server_validateItem(d.item) IN
    IF v.err THEN Response(st, v.code, TRUE, v.item, EmptyItem, EmptyBag, "none") ELSE
    FromStore(UpdateItem(st, id, v.item), "UpdateItem")

\* the members of the JSON object of an item, given which of the optional
\* ones are written: a number is <<n>> and null is <<>>
Members(item, keys) ==
    [k \in keys |->
        CASE k = "id" -> item.ID
          [] k = "sku" -> item.SKU
          [] k = "name" -> item.Name
          [] k = "description" -> item.Description
          [] k = "price_CAD" -> item.PriceInCAD
          [] k = "quantity" -> item.Quantity]

\* an encoding that treats the price as a plain number with omitempty: a
\* price of 0 is left out like an absent one
Encode_OmitZero(item) ==
    Members(item,
        {"id", "sku", "name", "quantity"}
            \cup (IF item.Description # <<>> THEN {"description"} ELSE {})
            \cup (IF item.PriceInCAD # <<>> /\ item.PriceInCAD # <<0>>
                  THEN {"price_CAD"} ELSE {}))

\* json.NewEncoder(w).Encode(item) with the tags of Item: id, sku, name and
\* quantity are always written, description when it is not empty, price_CAD
\* when the pointer is not nil, the two times never
Encode(item) ==
    Members(item,
        {"id", "sku", "name", "quantity"}
            \cup (IF item.Description # <<>> THEN {"description"} ELSE {})
            \cup (IF item.PriceInCAD # <<>> THEN {"price_CAD"} ELSE {}))

\* Server.DeleteItem
Server_DeleteItem(st, id) == FromStore(DeleteItem(st, id), "DeleteItem")

\* Server.GetItems
Server_GetItems(st) == FromStore(GetItems(st), "GetItems")

\* Server.GetItem
Server_GetItem(st, id) == FromStore(GetItem(st, id), "GetItem")

\* ------------------------------------------------------------- state
VARIABLES heap, dbBySKU, dbByID, minted, last, deleted, rows, sql, race

vars == <<heap, dbBySKU, dbByID, minted, last, deleted, rows, sql, race>>

\* the goroutines that serve requests at the same time, each with one call
\* of the relational store under way at most
Callers == {1, 2}

\* a call of the relational store by one caller: where it is (idle, pending:
\* its statement has not been executed, done: it has returned), its
\* operation and arguments, the identifier NewID gave it (the n-th), whether
\* its statement failed for a reason of the connection, what it returned,
\* and the callers whose call was under way at the same time
SqlCall(pc, op, id, cand, n, fault, code, err, item, with) ==
    [pc |-> pc, op |-> op, id |-> id, cand |-> cand, n |-> n, fault |-> fault,
     code |-> code, err |-> err, item |-> item, with |-> with]

SqlIdle == SqlCall("idle", "none", <<>>, EmptyItem, 0, FALSE, 0, FALSE, EmptyItem, {})

\* a call of the in-memory store by one caller, between its reads and
\* writes of the two maps: where it is, its operation and arguments, the
\* item v it found under the identifier, and what it returned
RaceCall(pc, op, id, cand, v, code, err) ==
    [pc |-> pc, op |-> op, id |-> id, cand |-> cand, v |-> v, code |-> code, err |-> err]

RaceIdle == RaceCall("idle", "none", <<>>, EmptyItem, 0, 0, FALSE)

\* the store, as the operators take it
Store == [heap |-> heap, dbBySKU |-> dbBySKU, dbByID |-> dbByID, minted |-> minted]

\* the item stored under id, EmptyItem when there is none
ItemAt(st, id) == IF id \in DOMAIN st.dbByID THEN st.heap[st.dbByID[id]] ELSE EmptyItem

\* a call and its response: its operation, its arguments (id, cand), the
\* item that was stored under id when it was made, its result, and the
\* store operation that was invoked (db, the operation itself for a call of
\* the store)
Call(op, id, cand, res) ==
    [op |-> op, id |-> id, cand |-> cand, before |-> ItemAt(Store, id),
     code |-> res.code, err |-> res.err,
     item |-> res.item, out |-> res.out, items |-> res.items, db |-> op]

NoCall ==
    [op |-> "none", id |-> IdNone, cand |-> EmptyItem, before |-> EmptyItem,
     code |-> 0, err |-> FALSE,
     item |-> EmptyItem, out |-> EmptyItem, items |-> EmptyBag, db |-> "none"]

SetStore(st) ==
    /\ heap' = st.heap
    /\ dbBySKU' = st.dbBySKU
    /\ dbByID' = st.dbByID
    /\ minted' = st.minted

\* the bounds: MaxCreates successful creates, no LastUpdated after MaxDay
WithinBounds(st) ==
    /\ st.minted <= MaxCreates
    /\ \A r \in DOMAIN st.heap :
          st.heap[r].LastUpdated # <<>> => st.heap[r].LastUpdated[1] <= MaxDay

Init ==
    /\ heap = NewMockDB.heap
    /\ dbBySKU = NewMockDB.dbBySKU
    /\ dbByID = NewMockDB.dbByID
    /\ minted = NewMockDB.minted
    /\ last = NoCall
    /\ deleted = {}
    /\ rows = {}
    /\ sql = [c \in Callers |-> SqlIdle]
    /\ race = [c \in Callers |-> RaceIdle]

\* no call is under way: the response of the last one has been taken
Idle == last = NoCall

\* db.CreateItem(&item) on a candidate of the caller
CallCreateItem ==
    /\ Idle
    /\ \E x \in Candidates(minted) :
          LET res == CreateItem(Store, x)
          IN  /\ WithinBounds(res.st)
              /\ SetStore(res.st)
              /\ last' = Call("create", IdNone, x, res)
              /\ UNCHANGED <<deleted, rows, sql, race>>

\* db.UpdateItem(&id, &item)
CallUpdateItem ==
    /\ Idle
    /\ \E i \in CallIDs(minted), y \in Candidates(minted) :
          LET res == UpdateItem(Store, i, y)
          IN  /\ WithinBounds(res.st)
              /\ SetStore(res.st)
              /\ last' = Call("update", i, y, res)
              /\ UNCHANGED <<deleted, rows, sql, race>>

\* db.DeleteItem(&id)
CallDeleteItem ==
    /\ Idle
    /\ \E i \in CallIDs(minted) :
          LET res == DeleteItem(Store, i)
          IN  /\ SetStore(res.st)
              /\ last' = Call("delete", i, EmptyItem, res)
              /\ UNCHANGED <<deleted, rows, sql, race>>

\* db.GetItem(&id)
CallGetItem ==
    /\ Idle
    /\ \E i \in CallIDs(minted) :
          LET res == GetItem(Store, i)
          IN  /\ SetStore(res.st)
              /\ last' = Call("get", i, EmptyItem, res)
              /\ UNCHANGED <<deleted, rows, sql, race>>

\* db.GetItems()
CallGetItems ==
    /\ Idle
    /\ LET res == GetItems(Store)
       IN  /\ SetStore(res.st)
           /\ last' = Call("list", IdNone, EmptyItem, res)
           /\ UNCHANGED <<deleted, rows, sql, race>>

\* the caller has taken the response; the store awaits the next call
Return ==
    /\ ~ Idle
    /\ last' = NoCall
    /\ UNCHANGED <<heap, dbBySKU, dbByID, minted, deleted, rows, sql, race>>

Next ==
    \/ CallCreateItem
    \/ CallUpdateItem
    \/ CallDeleteItem
    \/ CallGetItem
    \/ CallGetItems
    \/ Return

Spec == Init /\ [][Next]_vars

\* db.DeleteItem(&id), and the identifier is remembered in deleted when the
\* call succeeds (deleted is a history of the calls, not state of the store;
\* only SpecHistory records it, under Spec it stays empty)
CallDeleteItemRecorded ==
    /\ Idle
    /\ \E i \in CallIDs(minted) :
          LET res == DeleteItem(Store, i)
          IN  /\ SetStore(res.st)
              /\ last' = Call("delete", i, EmptyItem, res)
              /\ deleted' = IF res.err THEN deleted ELSE deleted \cup {i}
              /\ UNCHANGED <<rows, sql, race>>

NextHistory ==
    \/ CallCreateItem
    \/ CallUpdateItem
    \/ CallDeleteItemRecorded
    \/ CallGetItem
    \/ CallGetItems
    \/ Return

SpecHistory == Init /\ [][NextHistory]_vars


\* a request and its response: the handler's method, the identifier of the
\* URL, the item the body decoded to, and what the handler left
Request(op, id, body, resp) ==
    [op |-> op, id |-> id, cand |-> body.item, before |-> ItemAt(Store, id),
     code |-> resp.code, err |-> resp.err,
     item |-> resp.item, out |-> resp.out, items |-> resp.items, db |-> resp.db,
     location |-> resp.location]

\* a body that carries no item
NoBody == [decodes |-> TRUE, item |-> EmptyItem]

\* POST /api/items
HandleCreateItem ==
    /\ Idle
    /\ \E body \in Bodies(minted) :
          LET resp == Server_CreateItem(Store, body)
          IN  /\ WithinBounds(resp.st)
              /\ SetStore(resp.st)
              /\ last' = Request("POST", IdNone, body, resp)
              /\ UNCHANGED <<deleted, rows, sql, race>>

\* PUT /api/items/{id}
HandleUpdateItem ==
    /\ Idle
    /\ \E i \in CallIDs(minted), body \in Bodies(minted) :
          LET resp == Server_UpdateItem(Store, i, body)
          IN  /\ WithinBounds(resp.st)
              /\ SetStore(resp.st)
              /\ last' = Request("PUT", i, body, resp)
              /\ UNCHANGED <<deleted, rows, sql, race>>

\* DELETE /api/items/{id}
HandleDeleteItem ==
    /\ Idle
    /\ \E i \in CallIDs(minted) :
          LET resp == Server_DeleteItem(Store, i)
          IN  /\ SetStore(resp.st)
              /\ last' = Request("DELETE", i, NoBody, resp)
              /\ UNCHANGED <<deleted, rows, sql, race>>

\* GET /api/items
HandleGetItems ==
    /\ Idle
    /\ LET resp == Server_GetItems(Store)
       IN  /\ SetStore(resp.st)
           /\ last' = Request("GET", IdNone, NoBody, resp)
           /\ UNCHANGED <<deleted, rows, sql, race>>

\* GET /api/items/{id}
HandleGetItem ==
    /\ Idle
    /\ \E i \in CallIDs(minted) :
          LET resp == Server_GetItem(Store, i)
          IN  /\ SetStore(resp.st)
              /\ last' = Request("GET", i, NoBody, resp)
              /\ UNCHANGED <<deleted, rows, sql, race>>

NextServer ==
    \/ HandleCreateItem
    \/ HandleUpdateItem
    \/ HandleDeleteItem
    \/ HandleGetItems
    \/ HandleGetItem
    \/ Return

SpecServer == Init /\ [][NextServer]_vars

\* ---------------------------------------------------------- validator
\* The methods of the validator applied to an item: last holds the item
\* given and then the method applied, the item as the method leaves it and
\* what it returns.

\* an item in the hands of a caller, not yet checked
Given(x) == [op |-> "given", cand |-> x, item |-> x, code |-> 0, err |-> FALSE, msg |-> ""]

\* method op applied to x with outcome r
Applied(op, x, r) ==
    [op |-> op, cand |-> x, item |-> r.item, code |-> r.code, err |-> r.err, msg |-> r.msg]

InitValidate ==
    /\ heap = NewMockDB.heap
    /\ dbBySKU = NewMockDB.dbBySKU
    /\ dbByID = NewMockDB.dbByID
    /\ minted = NewMockDB.minted
    /\ deleted = {}
    /\ rows = {}
    /\ sql = [c \in Callers |-> SqlIdle]
    /\ race = [c \in Callers |-> RaceIdle]
    /\ \E x \in ValidatorInputs : last = Given(x)

ApplyValidateID ==
    /\ last.op = "given"
    /\ last' = Applied("ValidateID", last.cand, ValidateID(last.cand))
    /\ UNCHANGED <<heap, dbBySKU, dbByID, minted, deleted, rows, sql, race>>

ApplyValidateSKU ==
    /\ last.op = "given"
    /\ last' = Applied("ValidateSKU", last.cand, ValidateSKU(last.cand))
    /\ UNCHANGED <<heap, dbBySKU, dbByID, minted, deleted, rows, sql, race>>

ApplyValidateName ==
    /\ last.op = "given"
    /\ last' = Applied("ValidateName", last.cand, ValidateName(last.cand))
    /\ UNCHANGED <<heap, dbBySKU, dbByID, minted, deleted, rows, sql, race>>

ApplyValidateDescription ==
    /\ last.op = "given"
    /\ last' = Applied("ValidateDescription", last.cand, ValidateDescription(last.cand))
    /\ UNCHANGED <<heap, dbBySKU, dbByID, minted, deleted, rows, sql, race>>

ApplyValidatePrice ==
    /\ last.op = "given"
    /\ last' = Applied("ValidatePrice", last.cand, ValidatePrice(last.cand))
    /\ UNCHANGED <<heap, dbBySKU, dbByID, minted, deleted, rows, sql, race>>

ApplyValidateQuantity ==
    /\ last.op = "given"
    /\ last' = Applied("ValidateQuantity", last.cand, ValidateQuantity(last.cand))
    /\ UNCHANGED <<heap, dbBySKU, dbByID, minted, deleted, rows, sql, race>>

ApplyValidateItem ==
    /\ last.op = "given"
    /\ last' = Applied("ValidateItem", last.cand, ValidateItem(last.cand))
    /\ UNCHANGED <<heap, dbBySKU, dbByID, minted, deleted, rows, sql, race>>

\* method op applied to x with argument id, with outcome r
AppliedTo(op, x, id, r) ==
    [op |-> op, cand |-> x, id |-> id, item |-> r.item, code |-> r.code,
     err |-> r.err, msg |-> r.msg]

ApplySetID ==
    /\ last.op = "given"
    /\ \E id \in IdInputs : last' = AppliedTo("SetID", last.cand, id, SetID(last.cand, id))
    /\ UNCHANGED <<heap, dbBySKU, dbByID, minted, deleted, rows, sql, race>>

\* POST /api/items with the item as body, to a server over a new MockDB
PostGiven ==
    /\ last.op = "given"
    /\ LET body == [decodes |-> TRUE, item |-> last.cand]
           resp == Server_CreateItem(Store, body)
       IN  /\ WithinBounds(resp.st)
           /\ SetStore(resp.st)
           /\ last' = Request("POST", IdNone, body, resp)
    /\ UNCHANGED <<deleted, rows, sql, race>>

\* ValidateItem applied again to the item its first application left;
\* first is the outcome of the first application
AppliedAgain(op, first, r) ==
    [op |-> op, cand |-> first.item, first |-> first, item |-> r.item,
     code |-> r.code, err |-> r.err, msg |-> r.msg]

ApplyValidateItemAgain ==
    /\ last.op = "ValidateItem"
    /\ last' = AppliedAgain("ValidateItemAgain", last, ValidateItem(last.item))
    /\ UNCHANGED <<heap, dbBySKU, dbByID, minted, deleted, rows, sql, race>>

NextValidate ==
    \/ ApplyValidateID
    \/ ApplyValidateSKU
    \/ ApplyValidateName
    \/ ApplyValidateDescription
    \/ ApplyValidatePrice
    \/ ApplyValidateQuantity
    \/ ApplyValidateItem
    \/ ApplySetID
    \/ ApplyValidateItemAgain
    \/ PostGiven

SpecValidate == InitValidate /\ [][NextValidate]_vars

\* ---------------------------------------------------- relational store
\* the candidates and identifiers of the callers of the relational store:
\* Thing1 under either sku, without identifier or with a well-formed one
SqlCandidates == {Candidate(i, s, Thing1) : i \in {IdNone, IdForeign}, s \in SKUs}
SqlCallIDs(n) == {IdForeign} \cup MintedIDs(n)

\* readings of the clock: the calls of the relational store are all made
\* on the day the store is opened (time.Now() of the caller and now() of
\* the statement are taken as one reading)
Clock == {0}

\* caller c enters a call: it is under way together with the pending ones
SqlBegin(c, op, id, cand, n) ==
    sql' = [d \in Callers |->
              IF d = c
              THEN SqlCall("pending", op, id, cand, n, FALSE, 0, FALSE, EmptyItem,
                           {e \in Callers \ {c} : sql[e].pc = "pending"})
              ELSE IF sql[d].pc = "pending"
              THEN [sql[d] EXCEPT !.with = @ \cup {c}]
              ELSE sql[d]]

\* the statement of caller c has been executed and the call returns res
SqlDone(c, fault, res) ==
    /\ rows' = res.rows
    /\ sql' = [sql EXCEPT ![c] = [@ EXCEPT !.pc = "done", !.fault = fault,
                                           !.code = res.code, !.err = res.err,
                                           !.item = res.item]]

\* SQLDB.CreateItem up to Exec: the identifier is taken from NewID
SqlBeginCreateItem ==
    /\ minted < MaxCreates
    /\ \E c \in Callers, x \in SqlCandidates :
          /\ sql[c].pc = "idle"
          /\ SqlBegin(c, "create", IdNone, x, minted + 1)
    /\ minted' = minted + 1
    /\ UNCHANGED <<heap, dbBySKU, dbByID, last, deleted, rows, race>>

\* SQLDB.CreateItem from Exec on: the INSERT is one atomic statement
SqlExecCreateItem ==
    /\ \E c \in Callers, fault \in BOOLEAN, now \in Clock :
          /\ sql[c].pc = "pending" /\ sql[c].op = "create"
          /\ SqlDone(c, fault, SQLDB_CreateItem(rows, now, fault, sql[c].n, sql[c].cand))
    /\ UNCHANGED <<heap, dbBySKU, dbByID, minted, last, deleted, race>>

\* SQLDB.UpdateItem up to Exec
SqlBeginUpdateItem ==
    /\ \E c \in Callers, i \in SqlCallIDs(minted), y \in SqlCandidates :
          /\ sql[c].pc = "idle"
          /\ SqlBegin(c, "update", i, y, 0)
    /\ UNCHANGED <<heap, dbBySKU, dbByID, minted, last, deleted, rows, race>>

\* SQLDB.UpdateItem from Exec on: the UPDATE is one atomic statement
SqlExecUpdateItem ==
    /\ \E c \in Callers, fault \in BOOLEAN, now \in Clock :
          /\ sql[c].pc = "pending" /\ sql[c].op = "update"
          /\ SqlDone(c, fault, SQLDB_UpdateItem(rows, now, fault, sql[c].id, sql[c].cand))
    /\ UNCHANGED <<heap, dbBySKU, dbByID, minted, last, deleted, race>>

\* SQLDB.DeleteItem up to Exec
SqlBeginDeleteItem ==
    /\ \E c \in Callers, i \in SqlCallIDs(minted) :
          /\ sql[c].pc = "idle"
          /\ SqlBegin(c, "delete", i, EmptyItem, 0)
    /\ UNCHANGED <<heap, dbBySKU, dbByID, minted, last, deleted, rows, race>>

\* SQLDB.DeleteItem from Exec on: the DELETE is one atomic statement
SqlExecDeleteItem ==
    /\ \E c \in Callers, fault \in BOOLEAN :
          /\ sql[c].pc = "pending" /\ sql[c].op = "delete"
          /\ SqlDone(c, fault, SQLDB_DeleteItem(rows, fault, sql[c].id))
    /\ UNCHANGED <<heap, dbBySKU, dbByID, minted, last, deleted, race>>

\* a caller has taken the response of its call
SqlReturn ==
    /\ \E c \in Callers :
          /\ sql[c].pc = "done"
          /\ sql' = [d \in Callers |->
                       IF d = c THEN SqlIdle ELSE [sql[d] EXCEPT !.with = @ \ {c}]]
    /\ UNCHANGED <<heap, dbBySKU, dbByID, minted, last, deleted, rows, race>>

NextSQL ==
    \/ SqlBeginCreateItem
    \/ SqlExecCreateItem
    \/ SqlBeginUpdateItem
    \/ SqlExecUpdateItem
    \/ SqlBeginDeleteItem
    \/ SqlExecDeleteItem
    \/ SqlReturn

SpecSQL == Init /\ [][NextSQL]_vars

\* ------------------------------------------------------ both stores
\* The same calls made of a MockDB and of an SQLDB, one call at a time and
\* without failure of the connection: last is the call as the MockDB
\* answered it, sql[1] the call as the SQLDB answered it.  Both take the
\* same identifier from NewID for the same call.
BothCandidates(n) == {x \in Candidates(n) : Validated(x)}

\* what the SQLDB answered
SqlAnswer(op, id, cand, n, res) ==
    SqlCall("done", op, id, cand, n, FALSE, res.code, res.err, res.item, {})

SetSql(op, id, cand, n, res) ==
    /\ rows' = res.rows
    /\ sql' = [sql EXCEPT ![1] = SqlAnswer(op, id, cand, n, res)]

\* CreateItem of both stores
BothCreateItem ==
    /\ Idle
    /\ \E x \in BothCandidates(minted), now \in Clock :
          LET res == CreateItem(Store, x)
              sres == SQLDB_CreateItem(rows, now, FALSE, minted + 1, x)
              used == IF sres.err THEN res.st.minted ELSE minted + 1
          IN  /\ WithinBounds([res.st EXCEPT !.minted = used])
              /\ SetStore([res.st EXCEPT !.minted = used])
              /\ last' = Call("create", IdNone, x, res)
              /\ SetSql("create", IdNone, x, minted + 1, sres)
              /\ UNCHANGED <<deleted, race>>

\* UpdateItem of both stores
BothUpdateItem ==
    /\ Idle
    /\ \E i \in CallIDs(minted), y \in BothCandidates(minted), now \in Clock :
          LET res == UpdateItem(Store, i, y)
              sres == SQLDB_UpdateItem(rows, now, FALSE, i, y)
          IN  /\ WithinBounds(res.st)
              /\ SetStore(res.st)
              /\ last' = Call("update", i, y, res)
              /\ SetSql("update", i, y, 0, sres)
              /\ UNCHANGED <<deleted, race>>

\* DeleteItem of both stores
BothDeleteItem ==
    /\ Idle
    /\ \E i \in CallIDs(minted) :
          LET res == DeleteItem(Store, i)
          IN  /\ SetStore(res.st)
              /\ last' = Call("delete", i, EmptyItem, res)
              /\ SetSql("delete", i, EmptyItem, 0, SQLDB_DeleteItem(rows, FALSE, i))
              /\ UNCHANGED <<deleted, race>>

\* GetItem of both stores; the item the SQLDB returns is kept in sql[1].item
BothGetItem ==
    /\ Idle
    /\ \E i \in CallIDs(minted) :
          LET res == GetItem(Store, i)
              sres == SQLDB_GetItem(rows, FALSE, i)
          IN  /\ SetStore(res.st)
              /\ last' = Call("get", i, EmptyItem, res)
              /\ SetSql("get", i, EmptyItem, 0, [sres EXCEPT !.item = sres.out])
              /\ UNCHANGED <<deleted, race>>

\* GetItems of both stores
BothGetItems ==
    /\ Idle
    /\ LET res == GetItems(Store)
       IN  /\ SetStore(res.st)
           /\ last' = Call("list", IdNone, EmptyItem, res)
           /\ SetSql("list", IdNone, EmptyItem, 0, SQLDB_GetItems(rows, FALSE))
           /\ UNCHANGED <<deleted, race>>

\* the caller has taken both responses
BothReturn ==
    /\ ~ Idle
    /\ last' = NoCall
    /\ sql' = [sql EXCEPT ![1] = SqlIdle]
    /\ UNCHANGED <<heap, dbBySKU, dbByID, minted, deleted, rows, race>>

NextBoth ==
    \/ BothCreateItem
    \/ BothUpdateItem
    \/ BothDeleteItem
    \/ BothGetItem
    \/ BothGetItems
    \/ BothReturn

SpecBoth == Init /\ [][NextBoth]_vars

\* ----------------------------------------------------------- fixtures
\* The items a test loads: validated, with a well-formed identifier and
\* both times set.  Shelved was updated the day after it was added.
IdLoaded == Rep(98, ID_LEN)
FixtureIDs == {IdForeign, IdLoaded}
Fresh ==
    [Name |-> <<84, 49>>, Description |-> <<>>, PriceInCAD |-> <<>>,
     Quantity |-> <<0>>, DateAdded |-> <<0>>, LastUpdated |-> <<0>>]
Shelved ==
    [Name |-> <<84, 50>>, Description |-> <<100>>, PriceInCAD |-> <<0>>,
     Quantity |-> <<3>>, DateAdded |-> <<0>>, LastUpdated |-> <<1>>]
Fixtures == {Candidate(i, s, p) : i \in FixtureIDs, s \in SKUs, p \in {Fresh, Shelved}}

\* the slices a test loads: up to two items, of different identifiers and
\* different skus
Slices ==
    {<<>>} \cup {<<x>> : x \in Fixtures}
           \cup {<<p[1], p[2]>> : p \in {q \in Fixtures \X Fixtures :
                                            q[1].ID # q[2].ID /\ q[1].SKU # q[2].SKU}}

\* a load and the slice it was given
Load(items) ==
    [op |-> "load", id |-> IdNone, cand |-> EmptyItem, before |-> EmptyItem,
     code |-> 0, err |-> FALSE, item |-> EmptyItem, out |-> EmptyItem,
     items |-> EmptyBag, db |-> "load", loaded |-> items]

\* db := initDB(); db.LoadTestItems(test.toLoad), of both stores: the
\* stores are as NewMockDB and NewSQLDB leave them
BothLoadTestItems ==
    /\ Idle
    /\ Store = NewMockDB /\ rows = {}
    /\ \E items \in Slices, now \in Clock :
          /\ SetStore(LoadTestItems(Store, items))
          /\ rows' = SQLDB_LoadTestItems(rows, now, minted, items).rows
          /\ last' = Load(items)
          /\ sql' = [sql EXCEPT ![1] = SqlCall("done", "load", IdNone, EmptyItem, 0,
                                               FALSE, 0, FALSE, EmptyItem, {})]
          /\ UNCHANGED <<deleted, race>>

\* a test: the fixture is loaded, then the store is asked
NextLoad ==
    \/ BothLoadTestItems
    \/ BothGetItem
    \/ BothGetItems
    \/ BothDeleteItem
    \/ BothReturn

SpecLoad == Init /\ [][NextLoad]_vars

\* ------------------------------------------- in-memory store, shared
\* The handlers of several requests run at the same time on one MockDB,
\* which has no lock: the calls interleave between their reads and writes
\* of the two maps.  The candidates carry no identifier.
RaceCandidates == {Candidate(IdNone, s, Thing1) : s \in SKUs}

RaceStep(c, pc, v, code, err) ==
    race' = [race EXCEPT ![c] = [@ EXCEPT !.pc = pc, !.v = v, !.code = code, !.err = err]]

\* a caller enters CreateItem
RaceBeginCreateItem ==
    /\ \E c \in Callers, x \in RaceCandidates :
          /\ race[c].pc = "idle"
          /\ race' = [race EXCEPT ![c] = RaceCall("check", "create", IdNone, x, 0, 0, FALSE)]
    /\ UNCHANGED <<heap, dbBySKU, dbByID, minted, last, deleted, rows, sql>>

\* CreateItem: _, ok := db.dbBySKU[item.SKU]
RaceCreateCheck ==
    /\ \E c \in Callers :
          /\ race[c].pc = "check"
          /\ IF race[c].cand.SKU \in DOMAIN dbBySKU
             THEN RaceStep(c, "done", 0, StatusConflict, TRUE)
             ELSE RaceStep(c, "save", 0, 0, FALSE)
    /\ UNCHANGED <<heap, dbBySKU, dbByID, minted, last, deleted, rows, sql>>

\* CreateItem: the item is completed and db.dbBySKU[item.SKU] = item
RaceCreateSaveSKU ==
    /\ minted < MaxCreates
    /\ \E c \in Callers :
          /\ race[c].pc = "save"
          /\ LET it == CompleteItem(race[c].cand, minted + 1)
                 r == minted + 1
             IN  /\ heap' = MapPut(heap, r, it)
                 /\ dbBySKU' = MapPut(dbBySKU, it.SKU, r)
                 /\ RaceStep(c, "file", r, 0, FALSE)
    /\ minted' = minted + 1
    /\ UNCHANGED <<dbByID, last, deleted, rows, sql>>

\* CreateItem: db.dbByID[item.GetID()] = item, and the call returns
RaceCreateSaveID ==
    /\ \E c \in Callers :
          /\ race[c].pc = "file"
          /\ dbByID' = MapPut(dbByID, GetID(heap[race[c].v]), race[c].v)
          /\ RaceStep(c, "done", race[c].v, StatusCreated, FALSE)
    /\ UNCHANGED <<heap, dbBySKU, minted, last, deleted, rows, sql>>

\* a caller enters UpdateItem
RaceBeginUpdateItem ==
    /\ \E c \in Callers, i \in MintedIDs(minted), y \in RaceCandidates :
          /\ race[c].pc = "idle"
          /\ race' = [race EXCEPT ![c] = RaceCall("find", "update", i, y, 0, 0, FALSE)]
    /\ UNCHANGED <<heap, dbBySKU, dbByID, minted, last, deleted, rows, sql>>

\* UpdateItem: v, ok := db.dbByID[id]
RaceUpdateFind ==
    /\ \E c \in Callers :
          /\ race[c].pc = "find"
          /\ IF race[c].id \in DOMAIN dbByID
             THEN RaceStep(c, "compare", dbByID[race[c].id], 0, FALSE)
             ELSE RaceStep(c, "done", 0, StatusNotFound, TRUE)
    /\ UNCHANGED <<heap, dbBySKU, dbByID, minted, last, deleted, rows, sql>>

\* UpdateItem: v.SKU != item.SKU and _, ok := db.dbBySKU[item.SKU]
RaceUpdateCompare ==
    /\ \E c \in Callers :
          /\ race[c].pc = "compare"
          /\ IF heap[race[c].v].SKU = race[c].cand.SKU
             THEN RaceStep(c, "fields", race[c].v, 0, FALSE)
             ELSE IF race[c].cand.SKU \in DOMAIN dbBySKU
             THEN RaceStep(c, "done", race[c].v, StatusConflict, TRUE)
             ELSE RaceStep(c, "unlink", race[c].v, 0, FALSE)
    /\ UNCHANGED <<heap, dbBySKU, dbByID, minted, last, deleted, rows, sql>>

\* UpdateItem: delete(db.dbBySKU, v.SKU)
RaceUpdateUnlink ==
    /\ \E c \in Callers :
          /\ race[c].pc = "unlink"
          /\ dbBySKU' = MapDelete(dbBySKU, heap[race[c].v].SKU)
          /\ RaceStep(c, "link", race[c].v, 0, FALSE)
    /\ UNCHANGED <<heap, dbByID, minted, last, deleted, rows, sql>>

\* UpdateItem: v.SKU = item.SKU and db.dbBySKU[v.SKU] = v
RaceUpdateLink ==
    /\ \E c \in Callers :
          /\ race[c].pc = "link"
          /\ heap' = [heap EXCEPT ![race[c].v].SKU = race[c].cand.SKU]
          /\ dbBySKU' = MapPut(dbBySKU, race[c].cand.SKU, race[c].v)
          /\ RaceStep(c, "fields", race[c].v, 0, FALSE)
    /\ UNCHANGED <<dbByID, minted, last, deleted, rows, sql>>

\* UpdateItem: the other fields are replaced, the time is updated and the
\* call returns
RaceUpdateFields ==
    /\ \E c \in Callers :
          /\ race[c].pc = "fields"
          /\ LET new == UpdateTime(ReplaceFields(heap[race[c].v], race[c].cand))
             IN  /\ new.LastUpdated[1] <= MaxDay
                 /\ heap' = [heap EXCEPT ![race[c].v] = new]
          /\ RaceStep(c, "done", race[c].v, StatusNoContent, FALSE)
    /\ UNCHANGED <<dbBySKU, dbByID, minted, last, deleted, rows, sql>>

\* two calls are at the maps at the same moment, one of them writing: the
\* runtime ends the process ("fatal error: concurrent map writes")
RaceFatal ==
    /\ \E c \in Callers, d \in Callers :
          /\ c # d
          /\ race[c].pc \in {"save", "file", "unlink", "link"}
          /\ race[d].pc \in {"check", "save", "file", "find", "compare", "unlink", "link"}
    /\ race' = [c \in Callers |-> [race[c] EXCEPT !.pc = "fatal"]]
    /\ UNCHANGED <<heap, dbBySKU, dbByID, minted, last, deleted, rows, sql>>

\* a caller has taken the response of its call
RaceReturn ==
    /\ \E c \in Callers :
          /\ race[c].pc = "done"
          /\ race' = [race EXCEPT ![c] = RaceIdle]
    /\ UNCHANGED <<heap, dbBySKU, dbByID, minted, last, deleted, rows, sql>>

NextRace ==
    \/ RaceBeginCreateItem
    \/ RaceCreateCheck
    \/ RaceCreateSaveSKU
    \/ RaceCreateSaveID
    \/ RaceBeginUpdateItem
    \/ RaceUpdateFind
    \/ RaceUpdateCompare
    \/ RaceUpdateUnlink
    \/ RaceUpdateLink
    \/ RaceUpdateFields
    \/ RaceFatal
    \/ RaceReturn

SpecRace == Init /\ [][NextRace]_vars

\* --------------------------------------------------------- properties
\* the store after the step
StoreNext == [heap |-> heap', dbBySKU |-> dbBySKU', dbByID |-> dbByID', minted |-> minted']

\* x and y have the same sku, name, description, price and quantity
SameMutable(x, y) ==
    /\ x.SKU = y.SKU
    /\ x.Name = y.Name
    /\ x.Description = y.Description
    /\ x.PriceInCAD = y.PriceInCAD
    /\ x.Quantity = y.Quantity

\* some stored item has this sku
HasSku(sku) == \E r \in DOMAIN heap : heap[r].SKU = sku

\* C1: no two stored items with different identifiers have the same sku.
C1_SkuUnique ==
    \A r1, r2 \in DOMAIN heap :
        heap[r1].ID # heap[r2].ID => heap[r1].SKU # heap[r2].SKU

\* two items with different identifiers are stored and the last call was
\* refused for its sku
C1_Witness ==
    /\ \E r1, r2 \in DOMAIN heap : heap[r1].ID # heap[r2].ID
    /\ last.op \in {"create", "update"}
    /\ last.code = StatusConflict

\* C2: the identifier index and the sku index hold the same items, each
\* filed under its own identifier and its own sku, and list() returns
\* exactly the items get() can return, one entry per stored item.
C2_IndexLockstep ==
    /\ Range(dbByID) = Range(dbBySKU)
    /\ \A i \in DOMAIN dbByID : heap[dbByID[i]].ID = i
    /\ \A s \in DOMAIN dbBySKU : heap[dbBySKU[s]].SKU = s
    /\ BagToSet(GetItems(Store).items) = {GetItem(Store, i).out : i \in DOMAIN dbByID}
    /\ BagCardinality(GetItems(Store).items) = Cardinality(DOMAIN dbByID)

\* C3: after a successful create the created item's identifier is 20
\* characters of [a-v0-9] and no other stored item has it.
C3_CreatedIdFresh ==
    (last.op = "create" /\ last.code = StatusCreated) =>
        /\ ~ ID_isValid(last.item.ID).err
        /\ Cardinality({r \in DOMAIN heap : heap[r].ID = last.item.ID}) = 1

\* C4: create(x) of a validated x whose sku is not in the store succeeds
\* with Created, and get(x.identifier) then returns x's sku, name,
\* description, price and quantity with date_added equal to last_updated.
C4_CreateThenGet ==
    [][ (last'.op = "create" /\ Validated(last'.cand) /\ ~ HasSku(last'.cand.SKU)) =>
            /\ last'.code = StatusCreated
            /\ ~ last'.err
            /\ LET g == GetItem(StoreNext, last'.item.ID)
               IN  /\ g.code = StatusOK
                   /\ ~ g.err
                   /\ SameMutable(g.out, last'.cand)
                   /\ g.out.DateAdded # <<>>
                   /\ g.out.DateAdded = g.out.LastUpdated ]_vars

\* a validated candidate with description, price and quantity was created
\* and is stored under the identifier it got
C4_Witness ==
    /\ last.op = "create"
    /\ last.code = StatusCreated
    /\ Validated(last.cand)
    /\ last.cand.PriceInCAD # <<>>
    /\ ItemAt(Store, last.item.ID) = last.item

\* C5: create(x) when a stored item has x.sku fails with 409 and leaves the
\* store as it was (same items, same fields, same count).
C5_CreateDuplicate ==
    [][ (last'.op = "create" /\ HasSku(last'.cand.SKU)) =>
            /\ last'.code = StatusConflict
            /\ last'.err
            /\ StoreNext = Store
            /\ GetItems(StoreNext).items = GetItems(Store).items ]_vars

\* a create was refused for its sku while an item was stored
C5_Witness ==
    /\ last.op = "create"
    /\ last.code = StatusConflict
    /\ HasSku(last.cand.SKU)
    /\ heap # <<>>

\* C6: after a successful update(i, y), get(i) returns exactly y's sku,
\* name, description, price and quantity.
C6_FullReplace ==
    (last.op = "update" /\ last.code = StatusNoContent) =>
        LET g == GetItem(Store, last.id)
        IN  /\ g.code = StatusOK
            /\ SameMutable(g.out, last.cand)

\* an item that had a price and a description was updated with a candidate
\* that has neither, and now has neither
C6_Witness ==
    /\ last.op = "update"
    /\ last.code = StatusNoContent
    /\ last.before.PriceInCAD # <<>>
    /\ last.before.Description # <<>>
    /\ last.cand.PriceInCAD = <<>>
    /\ ItemAt(Store, last.id).PriceInCAD = <<>>
    /\ ItemAt(Store, last.id).Description = <<>>

\* C7: while an item is stored, its identifier and its date_added do not
\* change, whatever call is made.
C7_IdAndDateAddedFixed ==
    [][ /\ \A r \in DOMAIN heap \cap DOMAIN heap' :
              /\ heap'[r].ID = heap[r].ID
              /\ heap'[r].DateAdded = heap[r].DateAdded
        /\ \A i \in DOMAIN dbByID \cap DOMAIN dbByID' :
              /\ ItemAt(StoreNext, i).ID = ItemAt(Store, i).ID
              /\ ItemAt(StoreNext, i).DateAdded = ItemAt(Store, i).DateAdded ]_vars

\* an item was updated with a candidate that carries another identifier and
\* kept its own
C7_Witness ==
    /\ last.op = "update"
    /\ last.code = StatusNoContent
    /\ last.cand.ID \notin {IdNone, last.id}
    /\ ItemAt(Store, last.id).ID = last.id
    /\ ItemAt(Store, last.id).DateAdded = last.before.DateAdded

\* y without identifier, date_added and last_updated
Bare(y) == [y EXCEPT !.ID = <<>>, !.DateAdded = <<>>, !.LastUpdated = <<>>]

\* the items get() can return, as rows of a table (a row has a quantity)
Table == {it \in {heap[r] : r \in Range(dbByID)} : it.Quantity # <<>>}

\* C8: update(i, y) does not depend on y's identifier, date_added and
\* last_updated: y and y without the three (hence any two candidates that
\* agree on the other fields) give the same status and the same store, and
\* the item keeps identifier i and its date_added; so for MockDB.UpdateItem
\* and for the statement of SQLDB.UpdateItem.
C8_UpdateIgnoresIdAndDates ==
    Idle =>
        \A i \in CallIDs(minted) : \A y \in Candidates(minted) :
            /\ LET a == UpdateItem(Store, i, y)
                   b == UpdateItem(Store, i, Bare(y))
               IN  /\ a.code = b.code
                   /\ a.err = b.err
                   /\ a.st = b.st
                   /\ ~ a.err => /\ ItemAt(a.st, i).ID = i
                                 /\ ItemAt(a.st, i).DateAdded = ItemAt(Store, i).DateAdded
            /\ \A fault \in BOOLEAN :
                   LET a == SQLDB_UpdateItem(Table, MaxDay + 1, fault, i, y)
                       b == SQLDB_UpdateItem(Table, MaxDay + 1, fault, i, Bare(y))
                   IN  /\ a.code = b.code
                       /\ a.err = b.err
                       /\ a.rows = b.rows
                       /\ ~ a.err => \E r \in a.rows :
                                         /\ r.ID = i
                                         /\ r.DateAdded = ItemAt(Store, i).DateAdded

\* an item was updated with a candidate that carries dates of its own; its
\* date_added is as before and its last_updated is not the candidate's
C8_Witness ==
    /\ last.op = "update"
    /\ last.code = StatusNoContent
    /\ last.cand.DateAdded # <<>>
    /\ last.cand.DateAdded # last.before.DateAdded
    /\ ItemAt(Store, last.id).DateAdded = last.before.DateAdded
    /\ ItemAt(Store, last.id).LastUpdated # last.cand.LastUpdated

\* C9: a successful update(i, y) makes last_updated strictly later than it
\* was; a failed update leaves every last_updated as it was.
C9_LastUpdatedAdvances ==
    [][ last'.op = "update" =>
            IF last'.code = StatusNoContent
            THEN /\ ItemAt(Store, last'.id).LastUpdated # <<>>
                 /\ ItemAt(StoreNext, last'.id).LastUpdated # <<>>
                 /\ ItemAt(StoreNext, last'.id).LastUpdated[1]
                        > ItemAt(Store, last'.id).LastUpdated[1]
            ELSE /\ last'.err
                 /\ DOMAIN heap' = DOMAIN heap
                 /\ \A r \in DOMAIN heap : heap'[r].LastUpdated = heap[r].LastUpdated ]_vars

\* an update succeeded and the item's last_updated is later than before
C9_Witness ==
    /\ last.op = "update"
    /\ last.code = StatusNoContent
    /\ ItemAt(Store, last.id).LastUpdated[1] > last.before.LastUpdated[1]

\* C10: every stored item has last_updated >= date_added.
C10_LastUpdatedNotBeforeDateAdded ==
    \A r \in DOMAIN heap :
        /\ heap[r].DateAdded # <<>>
        /\ heap[r].LastUpdated # <<>>
        /\ heap[r].LastUpdated[1] >= heap[r].DateAdded[1]

\* an updated item (last_updated after date_added) and a fresh one (both
\* equal) are stored
C10_Witness ==
    /\ \E r \in DOMAIN heap : heap[r].LastUpdated[1] > heap[r].DateAdded[1]
    /\ \E r \in DOMAIN heap : heap[r].LastUpdated = heap[r].DateAdded

\* C11: update(i, y) with y.sku equal to the sku stored for item i is not
\* refused: it answers 204, item i then has y's name, description, price and
\* quantity (and the sku), and the sku index still files item i under it.
C11_SelfSkuUpdate ==
    [][ (/\ last'.op = "update"
         /\ last'.id \in DOMAIN dbByID
         /\ last'.cand.SKU = ItemAt(Store, last'.id).SKU) =>
            /\ last'.code = StatusNoContent
            /\ ~ last'.err
            /\ last'.id \in DOMAIN dbByID'
            /\ SameMutable(ItemAt(StoreNext, last'.id), last'.cand)
            /\ last'.cand.SKU \in DOMAIN dbBySKU'
            /\ dbBySKU'[last'.cand.SKU] = dbByID'[last'.id]
            /\ DOMAIN dbBySKU' = DOMAIN dbBySKU ]_vars

\* an item was updated under its own sku with another name while a second
\* item was stored
C11_Witness ==
    /\ last.op = "update"
    /\ last.code = StatusNoContent
    /\ last.cand.SKU = last.before.SKU
    /\ last.cand.Name # last.before.Name
    /\ ItemAt(Store, last.id).Name = last.cand.Name
    /\ Cardinality(DOMAIN dbByID) = 2

\* C12: update(i, y) with y.sku other than item i's sku and held by a
\* different stored item answers 409 and changes nothing: item i, the other
\* item and both indices are as before.
C12_UpdateDuplicate ==
    [][ (/\ last'.op = "update"
         /\ last'.id \in DOMAIN dbByID
         /\ last'.cand.SKU # ItemAt(Store, last'.id).SKU
         /\ \E r \in DOMAIN heap : r # dbByID[last'.id] /\ heap[r].SKU = last'.cand.SKU) =>
            /\ last'.code = StatusConflict
            /\ last'.err
            /\ ItemAt(StoreNext, last'.id) = ItemAt(Store, last'.id)
            /\ heap' = heap
            /\ dbBySKU' = dbBySKU
            /\ dbByID' = dbByID ]_vars

\* an update of one item to the sku of the other, with another name, was
\* refused and the item is as it was
C12_Witness ==
    /\ last.op = "update"
    /\ last.code = StatusConflict
    /\ last.before # EmptyItem
    /\ last.cand.SKU # last.before.SKU
    /\ last.cand.Name # last.before.Name
    /\ ItemAt(Store, last.id) = last.before
    /\ \E i \in DOMAIN dbByID : i # last.id /\ ItemAt(Store, i).SKU = last.cand.SKU

\* C13: update, delete and get with an identifier no stored item is filed
\* under answer 404 and leave the store as it was.
C13_UnknownIdentifier ==
    [][ (last'.op \in {"update", "delete", "get"} /\ last'.id \notin DOMAIN dbByID) =>
            /\ last'.code = StatusNotFound
            /\ last'.err
            /\ StoreNext = Store ]_vars

\* an update with a well-formed identifier that is not stored was answered
\* 404 while items were stored
C13_Witness ==
    /\ last.op = "update"
    /\ last.code = StatusNotFound
    /\ ~ ID_isValid(last.id).err
    /\ last.id \notin DOMAIN dbByID
    /\ dbByID # <<>>

\* C14: once delete(i) has succeeded, get(i) answers 404 and list() has no
\* item with identifier i, in the state after the delete and in every
\* later state, whatever calls follow.
C14_DeletedStaysGone ==
    \A i \in deleted :
        /\ GetItem(Store, i).code = StatusNotFound
        /\ \A it \in BagToSet(GetItems(Store).items) : it.ID # i

\* C15: a POST or PUT request whose item validate_item refuses is answered
\* 400 without any store operation being invoked, and the store is as
\* before.
C15_InvalidNeverReachesStore ==
    [][ (last'.op \in {"POST", "PUT"} /\ ValidateItem(last'.cand).err) =>
            /\ last'.code = StatusBadRequest
            /\ last'.err
            /\ last'.db = "none"
            /\ StoreNext = Store ]_vars

\* a PUT for a stored item with a negative price in its body was answered
\* 400 and the item is as it was
C15_Witness ==
    /\ last.op = "PUT"
    /\ last.code = StatusBadRequest
    /\ last.db = "none"
    /\ last.cand.PriceInCAD # <<>>
    /\ ValidateItem(last.cand).err
    /\ last.before # EmptyItem
    /\ ItemAt(Store, last.id) = last.before

\* the item as the checks that normalize leave it: name and description
\* trimmed, quantity 0 when there is none
NameOf(x) == ValidateName(x).item.Name
DescriptionOf(x) == ValidateDescription(x).item.Description

\* C16: validate_item runs the sku, name, description, price and quantity
\* checks in this order and stops at the first that fails: it returns that
\* check's failure, the fields checked later are as they were given (a
\* refused sku leaves the whole item as given; a refused name leaves the
\* description untrimmed and the quantity without default; a refused price
\* or quantity leaves the quantity as given), and it succeeds exactly when
\* the five checks succeed, the item being then normalized.
C16_ValidateItemOrder ==
    last.op = "ValidateItem" =>
        LET x == last.cand IN
        IF ValidateSKU(x).err
        THEN /\ last.err
             /\ last.code = StatusBadRequest
             /\ last.msg \in {MsgSkuLength, MsgSkuChars}
             /\ last.item = x
        ELSE IF ValidateName(x).err
        THEN /\ last.err
             /\ last.code = StatusBadRequest
             /\ last.msg = MsgName
             /\ last.item = [x EXCEPT !.Name = last.item.Name]
        ELSE IF ValidatePrice(x).err
        THEN /\ last.err
             /\ last.code = StatusBadRequest
             /\ last.msg = MsgPrice
             /\ last.item = [x EXCEPT !.Name = NameOf(x), !.Description = DescriptionOf(x)]
        ELSE IF ValidateQuantity(x).err
        THEN /\ last.err
             /\ last.code = StatusBadRequest
             /\ last.msg = MsgQuantity
             /\ last.item = [x EXCEPT !.Name = NameOf(x), !.Description = DescriptionOf(x)]
        ELSE /\ ~ last.err
             /\ last.code = 0
             /\ last.item = [x EXCEPT !.Name = NameOf(x), !.Description = DescriptionOf(x),
                                      !.Quantity = IF x.Quantity = <<>> THEN <<0>> ELSE x.Quantity]

\* an item with a sku that is too short, a padded name and no quantity was
\* refused for its sku and is as it was given
C16_Witness ==
    /\ last.op = "ValidateItem"
    /\ last.err
    /\ last.msg = MsgSkuLength
    /\ TrimSpace(last.cand.Name) # last.cand.Name
    /\ ~ ValidateName(last.cand).err
    /\ last.cand.Quantity = <<>>
    /\ last.item = last.cand

\* a letter or a digit
Alphanumeric(c) == IsLetter(c) \/ IsDigit(c)

\* C17: validate_sku succeeds exactly when the sku has 4 to 12 characters,
\* each a letter, a digit, '-' or '_', and fails with 400 otherwise; so for
\* every string, with characters of more than one byte as well.
C17_SkuFormat ==
    last.op = "ValidateSKU" =>
        LET sku == last.cand.SKU
            wellFormed ==
                /\ SKU_MIN_LEN <= Len(sku)
                /\ Len(sku) <= SKU_MAX_LEN
                /\ \A k \in 1..Len(sku) : Alphanumeric(sku[k]) \/ sku[k] = 45 \/ sku[k] = 95
        IN  /\ ~ last.err <=> wellFormed
            /\ last.err => /\ last.code = StatusBadRequest
                           /\ last.msg \in {MsgSkuLength, MsgSkuChars}

\* C18: validate_identifier succeeds exactly when the identifier has 20
\* characters, each in a-v or 0-9, and fails with 400 otherwise.
C18_IdFormat ==
    last.op = "ValidateID" =>
        LET id == last.cand.ID
            wellFormed ==
                /\ Len(id) = ID_LEN
                /\ \A k \in 1..Len(id) : id[k] \in (97..118) \cup (48..57)
        IN  /\ ~ last.err <=> wellFormed
            /\ last.err => /\ last.code = StatusBadRequest
                           /\ last.msg \in {MsgIdLength, MsgIdChars}
            /\ last.item = last.cand

\* an identifier of 20 characters, one of them w, was refused
C18_Witness ==
    /\ last.op = "ValidateID"
    /\ last.err
    /\ last.code = StatusBadRequest
    /\ Len(last.cand.ID) = ID_LEN
    /\ \E k \in 1..ID_LEN : last.cand.ID[k] = 119

\* C19: validate_quantity sets an absent quantity to 0 and succeeds; it
\* leaves a present quantity as it is and fails with 400 exactly when the
\* quantity is below 0.
C19_QuantityDefault ==
    last.op = "ValidateQuantity" =>
        IF last.cand.Quantity = <<>>
        THEN /\ ~ last.err
             /\ last.item = [last.cand EXCEPT !.Quantity = <<0>>]
        ELSE /\ last.item = last.cand
             /\ last.err <=> last.cand.Quantity[1] < 0
             /\ last.err => /\ last.code = StatusBadRequest
                            /\ last.msg = MsgQuantity

\* a quantity of 0 was accepted and left as it is
C19_Witness ==
    /\ last.op = "ValidateQuantity"
    /\ last.cand.Quantity = <<0>>
    /\ ~ last.err
    /\ last.item.Quantity = <<0>>

\* every character of s is whitespace
AllSpace(s) == \A k \in 1..Len(s) : IsSpace(s[k])

\* t is s without the whitespace at its two ends
Trimmed(s, t) ==
    /\ \E a, b \in 0..Len(s) :
          /\ a + b <= Len(s)
          /\ t = SubSeq(s, a + 1, Len(s) - b)
          /\ AllSpace(SubSeq(s, 1, a))
          /\ AllSpace(SubSeq(s, Len(s) - b + 1, Len(s)))
    /\ t # <<>> => ~ IsSpace(t[1]) /\ ~ IsSpace(t[Len(t)])

\* C20: validate_name leaves the trimmed name in the item and fails with
\* 400 exactly when the trimmed name is empty; a create request with an
\* empty or whitespace-only name is answered 400 and stores nothing.
C20_NameTrimmed ==
    /\ last.op = "ValidateName" =>
          /\ Trimmed(last.cand.Name, last.item.Name)
          /\ last.item = [last.cand EXCEPT !.Name = last.item.Name]
          /\ last.err <=> last.item.Name = <<>>
          /\ last.err => /\ last.code = StatusBadRequest
                         /\ last.msg = MsgName
    /\ (last.op = "POST" /\ AllSpace(last.cand.Name)) =>
          /\ last.code = StatusBadRequest
          /\ last.db = "none"
          /\ Store = NewMockDB

\* a name of spaces and tabs only was refused, the item's name being empty
\* afterwards
C20_Witness ==
    /\ last.op = "ValidateName"
    /\ Len(last.cand.Name) > 1
    /\ AllSpace(last.cand.Name)
    /\ last.err
    /\ last.item.Name = <<>>

\* C21: validate_price leaves the item as it is; it succeeds when there is
\* no price or the price is at least 0 and fails with 400 exactly when
\* there is a price below 0.
C21_PriceCheck ==
    last.op = "ValidatePrice" =>
        /\ last.item = last.cand
        /\ last.err <=> (last.cand.PriceInCAD # <<>> /\ last.cand.PriceInCAD[1] < 0)
        /\ last.err => /\ last.code = StatusBadRequest
                       /\ last.msg = MsgPrice
        /\ ~ last.err => last.code = 0

\* an item without price was accepted and still has none
C21_Witness ==
    /\ last.op = "ValidatePrice"
    /\ last.cand.PriceInCAD = <<>>
    /\ ~ last.err
    /\ last.item.PriceInCAD = <<>>

\* C22: a create whose candidate carries a malformed identifier (not 20
\* characters of [a-v0-9]) fails and stores nothing; and a create leaves
\* an identifier that is present and well-formed as it is.
C22_MalformedIdRejected ==
    [][ last'.op = "create" =>
            /\ (last'.cand.ID # <<>> /\ ID_isValid(last'.cand.ID).err) =>
                    /\ last'.err
                    /\ StoreNext = Store
            /\ (~ ID_isValid(last'.cand.ID).err /\ ~ last'.err) =>
                    last'.item.ID = last'.cand.ID ]_vars

\* the request body without its id field
WithoutId(body) == [decodes |-> body.decodes, item |-> [body.item EXCEPT !.ID = <<>>]]

\* C23: a POST request with an id field in its body has the outcome of the
\* same request without it (same status, same store afterwards), and the
\* identifier of the stored item is the one the store assigns, not the one
\* sent.
C23_CreateIgnoresId ==
    [][ last'.op = "POST" =>
            LET b == Server_CreateItem(Store, WithoutId([decodes |-> TRUE, item |-> last'.cand]))
            IN  /\ last'.code = b.code
                /\ last'.code = StatusCreated =>
                      /\ StoreNext = b.st
                      /\ last'.item.ID = b.item.ID ]_vars

\* 20 characters, each in a-v or 0-9
WellFormedID(id) ==
    /\ Len(id) = ID_LEN
    /\ \A k \in 1..Len(id) : id[k] \in (97..118) \cup (48..57)

\* C24: SetID(id) changes the identifier only of an item that has none yet
\* and only to a well-formed id, without error; on an item that has an
\* identifier, or with a malformed id, it returns an error and leaves the
\* identifier as it is.  After SetID without error the identifier is
\* well-formed.
C24_SetID ==
    last.op = "SetID" =>
        /\ IF last.cand.ID = <<>> /\ WellFormedID(last.id)
           THEN /\ ~ last.err
                /\ last.item = [last.cand EXCEPT !.ID = last.id]
           ELSE /\ last.err
                /\ last.item = last.cand
        /\ ~ last.err => WellFormedID(last.item.ID)

\* caller c's statement is executed in this step
Executes(c) == sql[c].pc = "pending" /\ sql'[c].pc = "done"

\* the row a call of the relational store writes: the one it inserts, or
\* the one with the identifier it is given
Target(call) == IF call.op = "create" THEN call.item.ID ELSE call.id

\* another row than the call's own holds the sku of its candidate
SkuHeld(table, call) ==
    \E r \in table : r.SKU = call.cand.SKU /\ r.ID # Target(call)

\* C25: a create or an update of the relational store answers 409 only
\* when the sku of the candidate is held by another row, and when the
\* statement fails for a reason of the connection or the query it answers
\* 500 with an error, not 409
C25_ConflictOnlyOnDuplicateSku ==
    [][ \A c \in Callers :
          (Executes(c) /\ sql'[c].op \in {"create", "update"}) =>
              /\ sql'[c].code = StatusConflict => SkuHeld(rows, sql'[c])
              /\ sql'[c].fault =>
                    sql'[c].err /\ sql'[c].code = StatusInternalServerError
      ]_vars

\* a successful status
Success(code) == code \in {StatusOK, StatusCreated, StatusNoContent}

\* C26: no call of the relational store fails silently: a create, update
\* or delete whose statement failed returns an error and a status that is
\* not a success, and a delete answers 204 only when the row was there and
\* is gone
C26_NoSilentFailure ==
    [][ \A c \in Callers :
          Executes(c) =>
              /\ sql'[c].fault => sql'[c].err /\ ~ Success(sql'[c].code)
              /\ sql'[c].err <=> ~ Success(sql'[c].code)
              /\ (sql'[c].op = "delete" /\ sql'[c].code = StatusNoContent) =>
                    /\ \E r \in rows : r.ID = sql'[c].id
                    /\ ~ \E r \in rows' : r.ID = sql'[c].id
      ]_vars

\* the calls of callers c and d were under way at the same time and both
\* have returned
Raced(c, d) ==
    /\ c # d
    /\ sql[c].pc = "done" /\ sql[d].pc = "done"
    /\ d \in sql[c].with

\* conflicting calls: two creates of one sku, or a create of a sku and an
\* update that puts another, existing row on that sku
Conflicting(a, b) ==
    /\ a.op = "create"
    /\ a.cand.SKU = b.cand.SKU
    /\ \/ b.op = "create"
       \/ /\ b.op = "update"
          /\ Target(a) # Target(b)
          /\ \E r \in rows : r.ID = Target(b)

\* C28: in the relational store no two rows ever share a sku or an
\* identifier, and of two conflicting calls that were under way at the same
\* time at most one succeeds and every one that fails answers 409
C28_ConcurrentConflicts ==
    /\ \A r1 \in rows, r2 \in rows : (r1.ID = r2.ID \/ r1.SKU = r2.SKU) => r1 = r2
    /\ \A c \in Callers, d \in Callers :
          (Raced(c, d) /\ Conflicting(sql[c], sql[d])) =>
              /\ sql[c].err \/ sql[d].err
              /\ sql[c].err => sql[c].code = StatusConflict
              /\ sql[d].err => sql[d].code = StatusConflict

\* two creates of one sku raced without any failure of the connection: one
\* was stored, the other answered 409
C28_Witness ==
    \E c \in Callers, d \in Callers :
        /\ Raced(c, d) /\ Conflicting(sql[c], sql[d])
        /\ sql[d].op = "create"
        /\ ~ sql[c].fault /\ ~ sql[d].fault
        /\ ~ sql[c].err /\ sql[d].err /\ sql[d].code = StatusConflict
        /\ \E r \in rows : r.ID = sql[c].item.ID /\ r.SKU = sql[c].cand.SKU

\* a racing update lost against a create of the sku it moves a row to
C28_WitnessUpdate ==
    \E c \in Callers, d \in Callers :
        /\ Raced(c, d) /\ Conflicting(sql[c], sql[d])
        /\ sql[d].op = "update"
        /\ ~ sql[c].fault /\ ~ sql[d].fault
        /\ ~ sql[c].err /\ sql[d].err /\ sql[d].code = StatusConflict

\* the items of a store by their sku and mutable fields
Contents(items) == {Bare(it) : it \in items}

\* C27: the in-memory and the relational store are interchangeable: the
\* same calls with validated candidates, with or without an identifier of
\* the caller, get the same status from both and leave the same items in
\* both (sku and mutable fields)
C27_StoresInterchangeable ==
    /\ last.op # "none" => last.code = sql[1].code /\ last.err = sql[1].err
    /\ last.op = "get" => Bare(last.out) = Bare(sql[1].item)
    /\ Contents(BagToSet(GetItems(Store).items)) = Contents(rows)

\* the identifier a client asks for when it follows a Location header:
\* the path without its leading "/"
Follow(location) == Tail(location[1])

\* the Fetch-item and List-items requests that follow the request of this
\* step
FetchNext(id) == Server_GetItem(StoreNext, id)
ListNext == Server_GetItems(StoreNext)

\* what C29 says of a Create-item request that answered 201, but for the
\* name of the fetched item
CreatedThenFetched(req) ==
    /\ Len(req.location) = 1
    /\ req.location[1] = <<47>> \o req.item.ID
    /\ LET got == FetchNext(Follow(req.location))
       IN  /\ got.code = StatusOK /\ ~ got.err
           /\ got.out.ID = req.item.ID
           /\ got.out.SKU = req.cand.SKU
           /\ req.cand.Quantity = <<>> => got.out.Quantity = <<0>>
           /\ ListNext.code = StatusOK
           /\ got.out \in BagToSet(ListNext.items)

Written(req) == IF req.op = "POST" THEN req.item.ID ELSE req.id

\* C30: an absent price and a price of 0 stay distinct through
\* validate_item, create or update, and get: the item a successful
\* Create-item or Update-item request has stored is fetched with the price
\* of the request, absent (no price_CAD member) when it had none and 0 when
\* it had 0; the quantity of a stored item is never absent, it is 0 when
\* the request had none, and it is always written
C30_AbsentPriceKept ==
    [][ (last'.op \in {"POST", "PUT"} /\ ~ last'.err) =>
            LET x == last'.cand
                got == FetchNext(Written(last'))
                doc == Encode(got.out)
            IN  /\ Server_validateItem(x).item.PriceInCAD = x.PriceInCAD
                /\ got.code = StatusOK
                /\ got.out.PriceInCAD = x.PriceInCAD
                /\ "price_CAD" \in DOMAIN doc <=> x.PriceInCAD # <<>>
                /\ x.PriceInCAD # <<>> => doc["price_CAD"] = x.PriceInCAD
                /\ x.Quantity = <<>> => got.out.Quantity = <<0>>
                /\ x.Quantity # <<>> => got.out.Quantity = x.Quantity
                /\ "quantity" \in DOMAIN doc /\ doc["quantity"] # <<>>
                /\ \A r \in DOMAIN heap' : heap'[r].Quantity # <<>>
      ]_vars

\* an update without price and without quantity has replaced an item that
\* had price 0: the item now has no price and quantity 0
C30_Witness ==
    /\ last.op = "PUT" /\ ~ last.err
    /\ last.before.PriceInCAD = <<0>>
    /\ last.cand.PriceInCAD = <<>> /\ last.cand.Quantity = <<>>
    /\ ItemAt(Store, last.id).PriceInCAD = <<>>
    /\ ItemAt(Store, last.id).Quantity = <<0>>
    /\ "price_CAD" \notin DOMAIN Encode(ItemAt(Store, last.id))

\* an item with price 0 has been created and is written with price_CAD 0
C30_WitnessZero ==
    /\ last.op = "POST" /\ ~ last.err
    /\ last.cand.PriceInCAD = <<0>>
    /\ Encode(ItemAt(Store, last.item.ID))["price_CAD"] = <<0>>

\* the items of a slice
Elements(items) == {items[k] : k \in DOMAIN items}

\* the in-memory store holds the loaded items exactly as given
LoadedInMemory(items) ==
    /\ \A x \in Elements(items) :
          LET got == GetItem(StoreNext, x.ID)
          IN  got.code = StatusOK /\ ~ got.err /\ got.out = x
    /\ GetItems(StoreNext).items = SetToBag(Elements(items))

\* the relational store holds the loaded items exactly as given
LoadedInTable(items) ==
    /\ \A x \in Elements(items) :
          LET got == SQLDB_GetItem(rows', FALSE, x.ID)
          IN  got.code = StatusOK /\ ~ got.err /\ got.out = x
    /\ SQLDB_GetItems(rows', FALSE).items = SetToBag(Elements(items))

\* C31: bulk_load of items with pairwise different identifiers and skus
\* into an empty store stores every item exactly as given, in both stores:
\* get returns each item and list returns all of them
C31_BulkLoadStoresAsGiven ==
    [][ last'.op = "load" =>
            LoadedInMemory(last'.loaded) /\ LoadedInTable(last'.loaded) ]_vars

\* the part of C31 that is about the in-memory store
C31_BulkLoadInMemory ==
    [][ last'.op = "load" => LoadedInMemory(last'.loaded) ]_vars

\* the store as the store operation of a request leaves it, the item being
\* as validate_item leaves the candidate
ThroughStore(req) ==
    LET x == Server_validateItem(req.cand).item
    IN  CASE req.db = "CreateItem" -> CreateItem(Store, x).st
          [] req.db = "UpdateItem" -> UpdateItem(Store, req.id, x).st
          [] req.db = "DeleteItem" -> DeleteItem(Store, req.id).st
          [] OTHER -> Store

\* C32: no request handler invokes bulk_load: a request invokes at most
\* the store operation of its handler, and every change it makes to the
\* store is the change create, update or delete makes
C32_BulkLoadUnreachable ==
    [][ last'.op # "none" =>
            /\ last'.db # "LoadTestItems"
            /\ last'.db \in
                  CASE last'.op = "POST" -> {"none", "CreateItem"}
                    [] last'.op = "PUT" -> {"none", "UpdateItem"}
                    [] last'.op = "DELETE" -> {"DeleteItem"}
                    [] OTHER -> {"GetItems", "GetItem"}
            /\ StoreNext = ThroughStore(last')
            /\ StoreNext # Store => last'.db \in {"CreateItem", "UpdateItem", "DeleteItem"}
      ]_vars

\* a request has changed the store, through CreateItem
C32_Witness ==
    /\ last.op = "POST" /\ ~ last.err /\ last.db = "CreateItem"
    /\ last.item.ID \in DOMAIN dbByID

\* the Replace-item request on the relational store whose table holds the
\* items of the store, without failure of the connection
ReplaceInTable(id, x) == SQLDB_UpdateItem(Table, 0, FALSE, id, x)

\* C33: a Replace-item request checks the item, then that the identifier
\* exists, then that the sku is free: a malformed item answers 400 also
\* for an identifier that does not exist, an identifier that does not exist
\* answers 404 also when another item holds the sku, and 409 is answered
\* only for an existing item and a well-formed candidate; the relational
\* store puts NotFound before DuplicateSKU as well
C33_ReplaceErrorOrder ==
    [][ last'.op = "PUT" =>
            LET v == Server_validateItem(last'.cand)
                exists == last'.id \in DOMAIN dbByID
            IN  /\ v.err => last'.code = StatusBadRequest /\ last'.err
                /\ (~ v.err /\ ~ exists) =>
                      /\ last'.code = StatusNotFound /\ last'.err
                      /\ ReplaceInTable(last'.id, v.item).code = StatusNotFound
                /\ last'.code = StatusConflict => ~ v.err /\ exists
                /\ ReplaceInTable(last'.id, v.item).code = StatusConflict =>
                      \E r \in Table : r.ID = last'.id
      ]_vars

\* a well-formed item was sent for an identifier that does not exist, with
\* a sku that a stored item holds: 404
C33_Witness ==
    /\ last.op = "PUT" /\ last.code = StatusNotFound
    /\ ~ Server_validateItem(last.cand).err
    /\ last.id \notin DOMAIN dbByID
    /\ last.cand.SKU \in DOMAIN dbBySKU
    /\ \E r \in Table : r.SKU = last.cand.SKU

\* a malformed item was sent for an identifier that does not exist: 400
C33_WitnessMalformed ==
    /\ last.op = "PUT" /\ last.code = StatusBadRequest
    /\ Server_validateItem(last.cand).err
    /\ last.id \notin DOMAIN dbByID

\* sku is free in store st: a create with it succeeds, and so does the
\* update to it of every stored item
Released(st, sku) ==
    /\ CreateItem(st, Candidate(IdNone, sku, Thing1)).code = StatusCreated
    /\ \A i \in DOMAIN st.dbByID :
          UpdateItem(st, i, Candidate(IdNone, sku, Thing1)).code = StatusNoContent

\* sku is reserved in store st: a create with it answers 409
Reserved(st, sku) ==
    CreateItem(st, Candidate(IdNone, sku, Thing1)).code = StatusConflict

\* C34: a sku is released as soon as no stored item holds it: after the
\* delete of the item that held it, and after an update that gave its item
\* another sku, a create with the sku and an update of another item to it
\* succeed; and a sku is reserved only while an item that list returns
\* holds it
C34_SkuReleased ==
    [][ /\ (last'.op = "delete" /\ ~ last'.err) =>
              Released(StoreNext, last'.before.SKU)
        /\ (last'.op = "update" /\ ~ last'.err /\ last'.before.SKU # last'.cand.SKU) =>
              Released(StoreNext, last'.before.SKU)
        /\ \A sku \in SKUs :
              Reserved(StoreNext, sku) <=>
                  \E it \in BagToSet(GetItems(StoreNext).items) : it.SKU = sku
      ]_vars

\* the item that held a sku has been deleted, another item is still stored
C34_Witness ==
    /\ last.op = "delete" /\ ~ last.err
    /\ last.before.SKU = SkuA
    /\ DOMAIN dbByID # {}
    /\ Released(Store, SkuA)

\* an update has moved an item from one sku to the other
C34_WitnessUpdate ==
    /\ last.op = "update" /\ ~ last.err
    /\ last.before.SKU = SkuA /\ last.cand.SKU = SkuB
    /\ Released(Store, SkuA) /\ Reserved(Store, SkuB)

\* no call of the shared in-memory store is under way and the process is
\* alive
Quiet == \A c \in Callers : race[c].pc \in {"idle", "done"}

\* C35: in the in-memory store every operation behaves as one indivisible
\* step also when several callers run at the same time: whatever the
\* interleaving of the reads and writes of two calls, once they have
\* returned no two stored items share a sku and the two indices hold the
\* same items, each under its own identifier and its own sku
C35_IndivisibleOperations ==
    Quiet =>
        /\ \A r1, r2 \in Range(dbByID) \cup Range(dbBySKU) :
              heap[r1].ID # heap[r2].ID => heap[r1].SKU # heap[r2].SKU
        /\ Range(dbByID) = Range(dbBySKU)
        /\ \A i \in DOMAIN dbByID : heap[dbByID[i]].ID = i
        /\ \A s \in DOMAIN dbBySKU : heap[dbBySKU[s]].SKU = s

\* C36: validate_item is idempotent: applied again to a candidate it has
\* accepted it succeeds and changes nothing, applied again to a candidate
\* it has refused it returns the same failure
C36_ValidateItemIdempotent ==
    last.op = "ValidateItemAgain" =>
        /\ ~ last.first.err => ~ last.err /\ last.code = 0 /\ last.item = last.cand
        /\ last.first.err =>
              /\ last.err
              /\ last.code = last.first.code
              /\ last.msg = last.first.msg

\* a candidate whose name had white space around it and that had no
\* quantity was accepted twice
C36_Witness ==
    /\ last.op = "ValidateItemAgain"
    /\ ~ last.first.err /\ ~ last.err
    /\ last.first.cand.Name # last.cand.Name
    /\ last.first.cand.Quantity = <<>>
    /\ last.item.Quantity = <<0>>

\* a candidate was refused twice for its price, its name trimmed meanwhile
C36_WitnessRefused ==
    /\ last.op = "ValidateItemAgain"
    /\ last.first.err /\ last.err /\ last.msg = MsgPrice

\* C37: get, list and validate_item leave the store unchanged: a
\* Fetch-item or List-items request, and a request that validate_item
\* refuses, leave both indices and every field of every stored item as
\* they were, and list always succeeds, with the stored items
C37_ReadsChangeNothing ==
    [][ /\ (last'.op = "GET" \/ last'.db = "none") => StoreNext = Store
        /\ last'.db = "GetItems" =>
              /\ last'.code = StatusOK /\ ~ last'.err
              /\ BagCardinality(last'.items) = Cardinality(DOMAIN dbBySKU)
      ]_vars

\* an item was fetched from a store and is there as before
C37_Witness ==
    /\ last.op = "GET" /\ last.db = "GetItem" /\ last.code = StatusOK
    /\ ItemAt(Store, last.id) = last.before
    /\ last.out = last.before

\* the items of an empty store were listed
C37_WitnessEmpty ==
    /\ last.op = "GET" /\ last.db = "GetItems" /\ last.code = StatusOK
    /\ last.items = EmptyBag /\ DOMAIN dbBySKU = {}
====
